---- MODULE Spec2Model ----
(***************************************************************************)
(* A model of the Carthooks Go SDK client: the credential store (access    *)
(* token, default headers, OAuth configuration, current tokens, expiry     *)
(* instant), the three OAuth exchanges and the refresh built on            *)
(* GetOAuthToken, EnsureValidToken, and the resource calls built on        *)
(* makeRequest and parseResponse.  Time is counted in seconds.             *)
(***************************************************************************)
EXTENDS Integers, Sequences, FiniteSets, TLC

VARIABLES
    accessToken,     \* Client.accessToken
    headers,         \* Client.headers: a map from header key to value
    oauthConfig,     \* Client.oauthConfig (set = FALSE: the nil pointer)
    currentTokens,   \* Client.currentTokens (set = FALSE: the nil pointer)
    tokenExpiresAt,  \* Client.tokenExpiresAt (set = FALSE: the nil pointer)
    baseURLOk,       \* whether Client.baseURL + path parses as a URL
    now,             \* the reading of time.Now(), in seconds
    last,            \* the call that has just returned, until the caller takes its return value:
                     \* its name, inputs, requests sent, return value, and the client before it
    given,           \* the value handed to a function studied on its own (a response to
                     \* parse, a Result to read, a ClientConfig and environment to resolve)
    returned,        \* what that function returned
    callers,         \* the goroutines that call EnsureValidToken on the one client: where
                     \* each one is in the call, and what it read, sent and received
    recorded,        \* the callers whose tokens were stored, in the order of the stores
    running,         \* Watcher.running
    runs,            \* the goroutines that call Watcher.Run: where each one is in the call
    stops,           \* the goroutines that call Watcher.Stop: where each one is in the call
    loops,           \* the goroutines started by "go w.pollSQSMessages()", in order of start
    subscriptions,   \* the number of calls of Subscribe made
    poll,            \* where the polling loop studied message by message is in its body
    batch,           \* result.Messages of that loop's last ReceiveMessage
    cursor,          \* the index in batch of the message the loop is at
    handled,         \* the indexes of the messages of batch passed to the handler
    deleted          \* the indexes of the messages of batch deleted from the queue

raceVars == <<callers, recorded>>

watcherVars == <<running, runs, stops, loops, subscriptions, poll, batch, cursor, handled, deleted>>

vars == <<accessToken, headers, oauthConfig, currentTokens, tokenExpiresAt, baseURLOk, now, last,
          given, returned, raceVars, watcherVars>>

(***************************************************************************)
(* Bounds of the model.                                                    *)
(***************************************************************************)
MaxNow == 2

(***************************************************************************)
(* Program constants.                                                      *)
(***************************************************************************)
FiveMinutes == 300

\* The default request timeout, in milliseconds.
DefaultTimeout == 30000

DefaultBaseURL == "https://api.carthooks.com"

ErrNoConfig == "OAuth configuration not provided"
ErrNoRefreshToken == "No refresh token available"
TokenPath == "/oauth/token"

(***************************************************************************)
(* Values of the pointer-typed fields.                                     *)
(***************************************************************************)
NilConfig == [set |-> FALSE, ClientID |-> "", ClientSecret |-> "", RefreshToken |-> "", AutoRefresh |-> FALSE]

OAuthConfig(id, secret, refresh, auto) ==
    [set |-> TRUE, ClientID |-> id, ClientSecret |-> secret, RefreshToken |-> refresh, AutoRefresh |-> auto]

NilTokens == [set |-> FALSE, AccessToken |-> "", TokenType |-> "", ExpiresIn |-> 0, RefreshToken |-> "", Scope |-> ""]

NilTime == [set |-> FALSE, at |-> 0]

TimeAt(t) == [set |-> TRUE, at |-> t]

(***************************************************************************)
(* The inputs the environment supplies.                                    *)
(***************************************************************************)
ConfigInputs ==
    { OAuthConfig("c1", "s1", r, a) : r \in {"", "rc"}, a \in BOOLEAN }

TokenInputs == {"", "t1"}

CustomHeaderInputs ==
    { [k \in {} |-> ""],
      [k \in {"authorization", "X-Trace"} |-> IF k = "authorization" THEN "Basic b" ELSE "x1"] }

(***************************************************************************)
(* JSON values of a response: a string field that is missing or not a     *)
(* string fails the .(string) assertion, a number field that is missing or *)
(* not a number fails the .(float64) assertion.  A number is held as its   *)
(* whole part and whether a fractional part follows it (1.5: whole 1,      *)
(* frac TRUE); the numbers here are not negative.                          *)
(***************************************************************************)
JStr(s) == [isString |-> TRUE, s |-> s]

JNoStr == [isString |-> FALSE, s |-> ""]

JNum(whole, frac) == [isNumber |-> TRUE, whole |-> whole, frac |-> frac]

JNoNum == [isNumber |-> FALSE, whole |-> 0, frac |-> FALSE]

JPositive(n) == n.isNumber /\ (n.whole > 0 \/ n.frac)

TokenData(access, type, expires, refresh, scope) ==
    [access_token |-> access, token_type |-> type, expires_in |-> expires,
     refresh_token |-> refresh, scope |-> scope]

EmptyObject == TokenData(JNoStr, JNoStr, JNoNum, JNoStr, JNoStr)

\* A value of type interface{}, as Result.Data holds it: nil, a string (the
\* sequence of its characters), a float64 (its whole part, towards zero, and
\* whether a fraction follows), a bool, a map (obj), a slice (elems: what its
\* elements are), or an int, which only a Result built by hand holds.
JValue(type, obj, s, whole, frac, b, elems) ==
    [type |-> type, obj |-> obj, s |-> s, whole |-> whole, frac |-> frac, b |-> b, elems |-> elems]

JNull == JValue("null", EmptyObject, << >>, 0, FALSE, FALSE, "none")

JString(chars) == JValue("string", EmptyObject, chars, 0, FALSE, FALSE, "none")

JText == JString(<<"x">>)

JObject(o) == JValue("object", o, << >>, 0, FALSE, FALSE, "none")

JNumber(whole, frac) == JValue("number", EmptyObject, << >>, whole, frac, FALSE, "none")

JBool(b) == JValue("bool", EmptyObject, << >>, 0, FALSE, b, "none")

JArray(elems) == JValue("array", EmptyObject, << >>, 0, FALSE, FALSE, elems)

GoInt(n) == JValue("int", EmptyObject, << >>, n, FALSE, FALSE, "none")

\* The token payloads a server answers with.
TokenPayloads ==
    { TokenData(JStr("a1"), JStr("Bearer"), JNum(FiveMinutes + 1, FALSE), JStr("r1"), JStr("api")),
      TokenData(JStr("a2"), JStr("Bearer"), JNum(FiveMinutes, FALSE), JNoStr, JStr("api")),
      TokenData(JStr("a2"), JStr("Bearer"), JNum(1, FALSE), JStr("r2"), JStr("api")),
      TokenData(JStr("a1"), JNoStr, JNum(0, FALSE), JStr("r2"), JNoStr),
      TokenData(JStr("a2"), JStr("Bearer"), JNum(0, TRUE), JNoStr, JNoStr),
      EmptyObject }

(***************************************************************************)
(* Result.Meta: the nil map, or a map that may hold the key "pagination".  *)
(* The value under that key is any JSON value; a field of a JSON object is *)
(* absent, null, a number (whole part, and whether a fraction follows) or  *)
(* a string.                                                               *)
(***************************************************************************)
JField(kind, whole, frac) == [kind |-> kind, whole |-> whole, frac |-> frac]

JAbsent == JField("absent", 0, FALSE)

JInt(n) == JField("number", n, FALSE)

PaginationData(type, page, pageSize, total, totalPages) ==
    [type |-> type, page |-> page, pageSize |-> pageSize, total |-> total, totalPages |-> totalPages]

NoPaginationData == PaginationData("none", JAbsent, JAbsent, JAbsent, JAbsent)

Meta(hasPagination, paginationData) ==
    [set |-> TRUE, hasPagination |-> hasPagination, pagination |-> paginationData]

NilMeta == [set |-> FALSE, hasPagination |-> FALSE, pagination |-> NoPaginationData]

EmptyMeta == Meta(FALSE, NoPaginationData)

(***************************************************************************)
(* What the transport and the server answer to one request: the transport  *)
(* fails, the body cannot be read, the body is not the JSON envelope, or   *)
(* the body is an envelope with or without an error object.                *)
(***************************************************************************)
Response(kind, text, hasError, data, trace) ==
    [kind |-> kind, text |-> text, hasError |-> hasError, data |-> data, trace_id |-> trace,
     meta |-> NilMeta]

FailureResponses ==
    { Response("transport_error", "dial tcp: connection refused", FALSE, JNull, ""),
      Response("read_error", "unexpected EOF", FALSE, JNull, ""),
      Response("malformed", "<html>502 Bad Gateway</html>", FALSE, JNull, ""),
      Response("envelope", "invalid_grant", TRUE, JText, "tr1") }

TokenResponses ==
    FailureResponses
    \cup { Response("envelope", "", FALSE, JObject(o), "tr2") : o \in TokenPayloads }
    \cup { Response("envelope", "", FALSE, JNull, ""), Response("envelope", "", FALSE, JText, "") }

ApiResponses ==
    FailureResponses \cup { Response("envelope", "", FALSE, JText, "tr3") }

(***************************************************************************)
(* Result.                                                                 *)
(***************************************************************************)
Result(success, error, data, trace) ==
    [Success |-> success, Error |-> error, Data |-> data, TraceID |-> trace, Meta |-> NilMeta]

FailedResult(error) == Result(FALSE, error, JNull, "")

\* Result.HasError.
HasError(r) == ~r.Success \/ r.Error # ""

\* Result.GetError.
GetError(r) == IF HasError(r) THEN r.Error ELSE ""

(***************************************************************************)
(* The typed accessors of Result.  Each returns its value and its error    *)
(* ("" for nil).                                                           *)
(***************************************************************************)
Got(value, err) == [value |-> value, err |-> err]

NotSuccessful(r) == "result is not successful: " \o r.Error

\* json.Unmarshal of the JSON of data into a value of the target type: a
\* RecordFormat takes an object, a []RecordFormat an array of objects, an
\* interface{} anything.
FitsTarget(data, target) ==
    CASE target = "RecordFormat" -> data.type = "object"
      [] target = "[]RecordFormat" -> data.type = "array" /\ data.elems \in {"empty", "objects"}
      [] OTHER -> TRUE

\* A faulty GetData: it does not look at Success.
GetDataOfFailure(r, target) ==
    IF r.Data = JNull THEN Got(JNull, "no data in result")
    ELSE IF ~FitsTarget(r.Data, target) THEN Got(JNull, "failed to unmarshal data: type mismatch")
    ELSE Got(r.Data, "")

\* GetData(v), v a pointer to a value of the target type: value is what v holds
\* after the call when it was the zero value before.
GetData(r, target) ==
    IF ~r.Success THEN Got(JNull, NotSuccessful(r))
    ELSE IF r.Data = JNull THEN Got(JNull, "no data in result")
    ELSE IF ~FitsTarget(r.Data, target) THEN Got(JNull, "failed to unmarshal data: type mismatch")
    ELSE Got(r.Data, "")

\* GetRecords.
GetRecords(r) ==
    LET g == GetData(r, "[]RecordFormat")
    IN IF g.err # "" THEN Got(JNull, g.err) ELSE Got(g.value, "")

\* GetRecord.
GetRecord(r) ==
    LET g == GetData(r, "RecordFormat")
    IN IF g.err # "" THEN Got(JNull, g.err) ELSE Got(g.value, "")

\* GetString.
GetString(r) ==
    IF ~r.Success THEN Got(JString(<< >>), NotSuccessful(r))
    ELSE IF r.Data.type = "string" THEN Got(JString(r.Data.s), "")
    ELSE Got(JString(<< >>), "data is not a string")

Digits == {"0", "1", "2", "3", "4", "5", "6", "7", "8", "9"}

DigitValue(ch) ==
    CASE ch = "0" -> 0 [] ch = "1" -> 1 [] ch = "2" -> 2 [] ch = "3" -> 3 [] ch = "4" -> 4
      [] ch = "5" -> 5 [] ch = "6" -> 6 [] ch = "7" -> 7 [] ch = "8" -> 8 [] OTHER -> 9

\* The number of leading characters of chars that are in set.
RECURSIVE LeadingCount(_, _)
LeadingCount(chars, set) ==
    IF chars = << >> \/ Head(chars) \notin set THEN 0
    ELSE 1 + LeadingCount(Tail(chars), set)

\* The value of a sequence of decimal digits.
RECURSIVE DecimalValue(_)
DecimalValue(digits) ==
    IF digits = << >> THEN 0
    ELSE 10 * DecimalValue(SubSeq(digits, 1, Len(digits) - 1)) + DigitValue(digits[Len(digits)])

\* fmt.Sscanf(v, "%d", &n): leading blanks are skipped, a sign is taken, then the
\* digits that follow; what comes after the digits is left unread.  ok is whether
\* one item was scanned without error.
Sscanf(chars) ==
    LET unblanked == SubSeq(chars, LeadingCount(chars, {" ", "\t"}) + 1, Len(chars))
        signed == unblanked # << >> /\ Head(unblanked) \in {"+", "-"}
        unsigned == IF signed THEN Tail(unblanked) ELSE unblanked
        count == LeadingCount(unsigned, Digits)
        magnitude == DecimalValue(SubSeq(unsigned, 1, count))
    IN [ok |-> count > 0,
        n |-> IF count = 0 THEN 0
              ELSE IF signed /\ Head(unblanked) = "-" THEN 0 - magnitude ELSE magnitude]

\* GetInt.
GetInt(r) ==
    IF ~r.Success THEN Got(GoInt(0), NotSuccessful(r))
    ELSE IF r.Data.type = "int" THEN Got(GoInt(r.Data.whole), "")
    ELSE IF r.Data.type = "number" THEN Got(GoInt(r.Data.whole), "")
    ELSE IF r.Data.type = "string" /\ Sscanf(r.Data.s).ok THEN Got(GoInt(Sscanf(r.Data.s).n), "")
    ELSE Got(GoInt(0), "data is not an integer")

\* GetBool.
GetBool(r) ==
    IF ~r.Success THEN Got(JBool(FALSE), NotSuccessful(r))
    ELSE IF r.Data.type = "bool" THEN Got(JBool(r.Data.b), "")
    ELSE Got(JBool(FALSE), "data is not a boolean")

\* *PaginationMeta: nil, or a record of four ints.
PaginationMeta(page, pageSize, total, totalPages) ==
    [nil |-> FALSE, Page |-> page, PageSize |-> pageSize, Total |-> total, TotalPages |-> totalPages]

NilPagination == [nil |-> TRUE, Page |-> 0, PageSize |-> 0, Total |-> 0, TotalPages |-> 0]

\* json.Unmarshal of one member into an int field: a missing or null member leaves
\* the field 0, a whole number sets it, anything else is an error.
IntFieldFits(field) == field.kind \in {"absent", "null"} \/ (field.kind = "number" /\ ~field.frac)

IntField(field) == IF field.kind = "number" THEN field.whole ELSE 0

\* GetPagination.
GetPagination(r) ==
    IF ~r.Meta.set THEN NilPagination
    ELSE IF ~r.Meta.hasPagination THEN NilPagination
    ELSE LET p == r.Meta.pagination
         IN IF p.type = "null" THEN PaginationMeta(0, 0, 0, 0)
            ELSE IF /\ p.type = "object"
                    /\ \A f \in {p.page, p.pageSize, p.total, p.totalPages} : IntFieldFits(f)
                 THEN PaginationMeta(IntField(p.page), IntField(p.pageSize),
                                     IntField(p.total), IntField(p.totalPages))
                 ELSE NilPagination

\* A faulty parseResponse: an envelope that carries data counts as a success even
\* when it carries an error object.
parseResponseDataWins(resp) ==
    CASE resp.kind = "read_error" -> FailedResult("failed to read response body: " \o resp.text)
      [] resp.kind = "malformed"  -> FailedResult(resp.text)
      [] OTHER ->
            LET result == [Result(FALSE, "", JNull, resp.trace_id) EXCEPT !.Meta = resp.meta]
            IN IF resp.hasError /\ resp.data = JNull
               THEN [result EXCEPT !.Success = FALSE, !.Error = resp.text]
               ELSE [result EXCEPT !.Success = TRUE, !.Data = resp.data]

\* A faulty parseResponse: the data of the envelope is kept beside its error.
parseResponseKeepsData(resp) ==
    CASE resp.kind = "read_error" -> FailedResult("failed to read response body: " \o resp.text)
      [] resp.kind = "malformed"  -> FailedResult(resp.text)
      [] OTHER ->
            LET result == [Result(FALSE, "", resp.data, resp.trace_id) EXCEPT !.Meta = resp.meta]
            IN IF resp.hasError
               THEN [result EXCEPT !.Success = FALSE, !.Error = resp.text]
               ELSE [result EXCEPT !.Success = TRUE]

\* A faulty parseResponse: a body that does not decode gives a fixed message.
parseResponseFixedMessage(resp) ==
    CASE resp.kind = "read_error" -> FailedResult("failed to read response body: " \o resp.text)
      [] resp.kind = "malformed"  -> FailedResult("invalid response body")
      [] OTHER ->
            LET result == [Result(FALSE, "", JNull, resp.trace_id) EXCEPT !.Meta = resp.meta]
            IN IF resp.hasError
               THEN [result EXCEPT !.Success = FALSE, !.Error = resp.text]
               ELSE [result EXCEPT !.Success = TRUE, !.Data = resp.data]

\* parseResponse: the Result of a response the transport delivered.
parseResponse(resp) ==
    CASE resp.kind = "read_error" -> FailedResult("failed to read response body: " \o resp.text)
      [] resp.kind = "malformed"  -> FailedResult(resp.text)
      [] OTHER ->
            LET result == [Result(FALSE, "", JNull, resp.trace_id) EXCEPT !.Meta = resp.meta]
            IN IF resp.hasError
               THEN [result EXCEPT !.Success = FALSE, !.Error = resp.text]
               ELSE [result EXCEPT !.Success = TRUE, !.Data = resp.data]

(***************************************************************************)
(* The body of an HTTP response and json.Unmarshal of it into the envelope *)
(* struct of parseResponse.  A body is text that is not JSON, or a JSON     *)
(* value: null, an array, a string, a number, or an object whose members   *)
(* data, error, trace_id and meta are each absent or present with some     *)
(* JSON value.  raw is the text of the body.                               *)
(***************************************************************************)
\* The member "data": absent, or present with value v.
NoData == [present |-> FALSE, value |-> JNull, raw |-> ""]

DataMember(v, raw) == [present |-> TRUE, value |-> v, raw |-> "\"data\":" \o raw]

\* The member "error": absent, null, an object (whose "message" is absent, a string
\* or a number), or a string.
ErrorMember(kind, messageKind, message, raw) ==
    [kind |-> kind, messageKind |-> messageKind, message |-> message,
     raw |-> IF kind = "absent" THEN "" ELSE "\"error\":" \o raw]

\* The member "trace_id": absent, a string or a number.
TraceMember(kind, s, raw) ==
    [kind |-> kind, s |-> s, raw |-> IF kind = "absent" THEN "" ELSE "\"trace_id\":" \o raw]

\* The member "meta": absent, an object or an array.
MetaMember(kind, value, raw) ==
    [kind |-> kind, value |-> value, raw |-> IF kind = "absent" THEN "" ELSE "\"meta\":" \o raw]

RECURSIVE JoinMembers(_)
JoinMembers(texts) ==
    IF texts = << >> THEN ""
    ELSE IF Len(texts) = 1 THEN texts[1]
    ELSE texts[1] \o "," \o JoinMembers(Tail(texts))

NonEmpty(text) == text # ""

\* A body that is a JSON object with these members.
ObjectBody(data, error, trace, meta) ==
    [json |-> "object", data |-> data, error |-> error, trace_id |-> trace, meta |-> meta,
     raw |-> "{" \o JoinMembers(SelectSeq(<<data.raw, error.raw, trace.raw, meta.raw>>, NonEmpty)) \o "}"]

\* A body that is not a JSON object: json is "invalid" for text that is not JSON.
OtherBody(json, raw) ==
    [json |-> json, data |-> NoData, error |-> ErrorMember("absent", "absent", "", ""),
     trace_id |-> TraceMember("absent", "", ""), meta |-> MetaMember("absent", NilMeta, ""),
     raw |-> raw]

\* parseResponse, lines 439-449: json.Unmarshal(body, &apiResp) and what is read of
\* apiResp when it succeeds.  Unmarshal fails on text that is not JSON and on a
\* value that does not fit the Go type it is decoded into; JSON null fits every
\* type here and leaves it at its zero value.
Unmarshal(body) ==
    LET mismatch == \/ body.json \in {"array", "string", "number"}
                    \/ body.error.kind = "string"
                    \/ (body.error.kind = "object" /\ body.error.messageKind = "number")
                    \/ body.trace_id.kind = "number"
                    \/ body.meta.kind = "array"
    IN IF body.json = "invalid" \/ mismatch
       THEN Response("malformed", body.raw, FALSE, JNull, "")
       ELSE [Response("envelope",
                      IF body.error.kind = "object" /\ body.error.messageKind = "string"
                      THEN body.error.message ELSE "",
                      body.error.kind = "object",
                      IF body.data.present THEN body.data.value ELSE JNull,
                      IF body.trace_id.kind = "string" THEN body.trace_id.s ELSE "")
             EXCEPT !.meta = IF body.meta.kind = "object" THEN body.meta.value ELSE NilMeta]

(***************************************************************************)
(* The client: the fields of Client as one record.                         *)
(***************************************************************************)
Client ==
    [accessToken |-> accessToken, headers |-> headers, oauthConfig |-> oauthConfig,
     currentTokens |-> currentTokens, tokenExpiresAt |-> tokenExpiresAt, baseURLOk |-> baseURLOk]

\* Writing m[k] = v in a Go map.
MapSet(m, k, v) == [x \in DOMAIN m \cup {k} |-> IF x = k THEN v ELSE m[x]]

\* A faulty NewClient: the OAuth configuration is copied as it was given.
NewClientAsGiven(token, custom, oauth, urlOk) ==
    LET defaults == [k \in {"Content-Type", "Accept"} |-> "application/json"]
        withCustom == [k \in DOMAIN defaults \cup DOMAIN custom |->
                          IF k \in DOMAIN custom THEN custom[k] ELSE defaults[k]]
        hdrs == IF token # "" THEN MapSet(withCustom, "Authorization", "Bearer " \o token) ELSE withCustom
    IN [accessToken |-> token, headers |-> hdrs, oauthConfig |-> oauth,
        currentTokens |-> NilTokens, tokenExpiresAt |-> NilTime, baseURLOk |-> urlOk]

\* NewClient: the client built from a ClientConfig.
NewClient(token, custom, oauth, urlOk) ==
    LET defaults == [k \in {"Content-Type", "Accept"} |-> "application/json"]
        withCustom == [k \in DOMAIN defaults \cup DOMAIN custom |->
                          IF k \in DOMAIN custom THEN custom[k] ELSE defaults[k]]
        hdrs == IF token # "" THEN MapSet(withCustom, "Authorization", "Bearer " \o token) ELSE withCustom
        cfg == IF oauth.set /\ ~oauth.AutoRefresh /\ oauth.RefreshToken # ""
               THEN [oauth EXCEPT !.AutoRefresh = TRUE]
               ELSE oauth
    IN [accessToken |-> token, headers |-> hdrs, oauthConfig |-> cfg,
        currentTokens |-> NilTokens, tokenExpiresAt |-> NilTime, baseURLOk |-> urlOk]

\* A faulty SetAccessToken: it also rewrites the access token of the stored tokens.
SetAccessTokenAndStored(c, token) ==
    [c EXCEPT !.accessToken = token,
              !.headers = MapSet(c.headers, "Authorization", "Bearer " \o token),
              !.currentTokens = IF c.currentTokens.set
                                THEN [c.currentTokens EXCEPT !.AccessToken = token]
                                ELSE c.currentTokens]

\* SetAccessToken.
SetAccessToken(c, token) ==
    [c EXCEPT !.accessToken = token,
              !.headers = MapSet(c.headers, "Authorization", "Bearer " \o token)]

\* SetOAuthConfig.
SetOAuthConfig(c, config) ==
    [c EXCEPT !.oauthConfig =
        OAuthConfig(config.ClientID, config.ClientSecret, config.RefreshToken, config.AutoRefresh)]

(***************************************************************************)
(* Requests.  http.Header.Set writes under the canonical form of the key,  *)
(* and Go ranges over a map in no fixed order: of the keys of c.headers    *)
(* with one canonical form, any one can be written last.                   *)
(***************************************************************************)
CanonicalKey(k) == IF k = "authorization" THEN "Authorization" ELSE k

\* The headers a request can leave with: base, then Set(k, h[k]) for k in keys.
WireHeaders(base, h, keys) ==
    LET cks == { CanonicalKey(k) : k \in keys }
        dom == DOMAIN base \cup cks
        cand(ck) == IF ck \in cks
                    THEN { h[k] : k \in { x \in keys : CanonicalKey(x) = ck } }
                    ELSE { base[ck] }
        multi == { ck \in dom : Cardinality(cand(ck)) > 1 }
        picks == { g \in [multi -> UNION { cand(ck) : ck \in multi }] :
                      \A ck \in multi : g[ck] \in cand(ck) }
    IN { [ck \in dom |-> IF ck \in multi THEN g[ck] ELSE CHOOSE v \in cand(ck) : TRUE] : g \in picks }

Request(method, path, header, form) ==
    [method |-> method, path |-> path, header |-> header, form |-> form]

NoForm == [k \in {} |-> ""]

\* makeRequest, lines 393-396: every header of c.headers is set.
JSONHeaders(c) == WireHeaders([k \in {} |-> ""], c.headers, DOMAIN c.headers)

\* makeFormRequest, lines 233-242: the form content type, then the other headers.
FormHeaders(c) ==
    WireHeaders([k \in {"Content-Type", "Accept"} |->
                    IF k = "Accept" THEN "application/json" ELSE "application/x-www-form-urlencoded"],
                c.headers,
                { k \in DOMAIN c.headers : k # "Authorization" /\ k # "Content-Type" })

\* makeRequest: the error it returns ("" for none) and the requests it hands to the transport.
makeRequest(c, method, path, hasParams, bodyOk, hdr, resp) ==
    IF hasParams /\ ~c.baseURLOk THEN [err |-> "invalid URL: parse error", sent |-> <<>>]
    ELSE IF ~bodyOk THEN [err |-> "failed to marshal request body: unsupported type", sent |-> <<>>]
    ELSE IF ~c.baseURLOk THEN [err |-> "failed to create request: parse error", sent |-> <<>>]
    ELSE [err |-> IF resp.kind = "transport_error" THEN "request failed: " \o resp.text ELSE "",
          sent |-> << Request(method, path, hdr, NoForm) >>]

\* makeFormRequest.
makeFormRequest(c, method, path, formData, hdr, resp) ==
    IF ~c.baseURLOk THEN [err |-> "failed to create request: parse error", sent |-> <<>>]
    ELSE [err |-> IF resp.kind = "transport_error" THEN "request failed: " \o resp.text ELSE "",
          sent |-> << Request(method, path, hdr, formData) >>]

(***************************************************************************)
(* The OAuth operations.  Each returns the client after the call, the      *)
(* Result and the requests handed to the transport.  hdr is the header the *)
(* request leaves with, resp the answer to it, t the reading of time.Now() *)
(* when the answer is recorded.                                            *)
(***************************************************************************)
OAuthTokenRequest(grant, id, secret, user, code, redirect, refresh) ==
    [GrantType |-> grant, ClientID |-> id, ClientSecret |-> secret, UserAccessToken |-> user,
     Code |-> code, RedirectURI |-> redirect, RefreshToken |-> refresh]

Outcome(c, result, sent) == [c |-> c, result |-> result, sent |-> sent]

\* A faulty FormData: the optional fields are written even when they are empty.
FormDataWithEmptyFields(request) ==
    [k \in {"grant_type", "client_id", "client_secret", "user_access_token", "code",
            "redirect_uri", "refresh_token"} |->
        CASE k = "grant_type" -> request.GrantType
          [] k = "client_id" -> request.ClientID
          [] k = "client_secret" -> request.ClientSecret
          [] k = "user_access_token" -> request.UserAccessToken
          [] k = "code" -> request.Code
          [] k = "redirect_uri" -> request.RedirectURI
          [] OTHER -> request.RefreshToken]

\* GetOAuthToken, lines 14-30: the form of a token request.
FormData(request) ==
    LET optional == [k \in {"user_access_token", "code", "redirect_uri", "refresh_token"} |->
                        CASE k = "user_access_token" -> request.UserAccessToken
                          [] k = "code" -> request.Code
                          [] k = "redirect_uri" -> request.RedirectURI
                          [] OTHER -> request.RefreshToken]
        keys == {"grant_type", "client_id", "client_secret"}
                    \cup { k \in DOMAIN optional : optional[k] # "" }
    IN [k \in keys |->
            CASE k = "grant_type" -> request.GrantType
              [] k = "client_id" -> request.ClientID
              [] k = "client_secret" -> request.ClientSecret
              [] OTHER -> optional[k]]

\* A faulty ShouldStore: the client_id of the request is not compared.
ShouldStoreAnyClient(c, request, result) ==
    /\ result.Success
    /\ c.oauthConfig.set
    /\ result.Data.type = "object"

\* GetOAuthToken, lines 44-45: whether the tokens of a Result are stored.
ShouldStore(c, request, result) ==
    /\ result.Success
    /\ c.oauthConfig.set
    /\ request.ClientID = c.oauthConfig.ClientID
    /\ result.Data.type = "object"

\* GetOAuthToken, lines 46-61: the OAuthTokens read from the token data.
TokensOf(tokenData) ==
    [set |-> TRUE,
     AccessToken |-> IF tokenData.access_token.isString THEN tokenData.access_token.s ELSE "",
     TokenType |-> IF tokenData.token_type.isString THEN tokenData.token_type.s ELSE "",
     ExpiresIn |-> IF tokenData.expires_in.isNumber THEN tokenData.expires_in.whole ELSE 0,
     RefreshToken |-> IF tokenData.refresh_token.isString THEN tokenData.refresh_token.s ELSE "",
     Scope |-> IF tokenData.scope.isString THEN tokenData.scope.s ELSE ""]

\* A faulty RecordTokens: tokens that are there already are kept.
RecordTokensOnce(c, tokens, t) ==
    IF c.currentTokens.set THEN c
    ELSE [c EXCEPT !.currentTokens = tokens,
                   !.tokenExpiresAt = IF tokens.ExpiresIn > 0
                                      THEN TimeAt(t + tokens.ExpiresIn)
                                      ELSE c.tokenExpiresAt]

\* GetOAuthToken, lines 63-68: storing the tokens and the expiry instant.
RecordTokens(c, tokens, t) ==
    [c EXCEPT !.currentTokens = tokens,
              !.tokenExpiresAt = IF tokens.ExpiresIn > 0
                                 THEN TimeAt(t + tokens.ExpiresIn)
                                 ELSE c.tokenExpiresAt]

\* GetOAuthToken, lines 63-71: storing the tokens, the expiry instant and the header.
StoreTokens(c, tokens, t) == SetAccessToken(RecordTokens(c, tokens, t), tokens.AccessToken)

\* A faulty GetOAuthToken: an unsuccessful Result makes it forget the stored tokens.
GetOAuthTokenForgetting(c, request, hdr, resp, t) ==
    LET mk == makeFormRequest(c, "POST", TokenPath, FormData(request), hdr, resp)
        result == parseResponse(resp)
    IN IF mk.err # "" THEN Outcome(c, FailedResult(mk.err), mk.sent)
       ELSE IF ShouldStore(c, request, result)
            THEN Outcome(StoreTokens(c, TokensOf(result.Data.obj), t), result, mk.sent)
            ELSE IF ~result.Success
                 THEN Outcome([c EXCEPT !.currentTokens = NilTokens, !.tokenExpiresAt = NilTime],
                              result, mk.sent)
                 ELSE Outcome(c, result, mk.sent)

\* GetOAuthToken.
GetOAuthToken(c, request, hdr, resp, t) ==
    LET mk == makeFormRequest(c, "POST", TokenPath, FormData(request), hdr, resp)
        result == parseResponse(resp)
    IN IF mk.err # "" THEN Outcome(c, FailedResult(mk.err), mk.sent)
       ELSE IF ShouldStore(c, request, result)
            THEN Outcome(StoreTokens(c, TokensOf(result.Data.obj), t), result, mk.sent)
            ELSE Outcome(c, result, mk.sent)

\* A faulty TokenToUse: the stored refresh token goes before the configured one.
TokenToUseStoredFirst(c, arg) ==
    IF Len(arg) > 0 /\ arg[1] # "" THEN arg[1]
    ELSE IF c.currentTokens.set /\ c.currentTokens.RefreshToken # "" THEN c.currentTokens.RefreshToken
    ELSE IF c.oauthConfig.RefreshToken # "" THEN c.oauthConfig.RefreshToken
    ELSE ""

\* RefreshOAuthToken, lines 87-94: the refresh token to send ("" for none).
\* arg is the sequence of the variadic arguments.
TokenToUse(c, arg) ==
    IF Len(arg) > 0 /\ arg[1] # "" THEN arg[1]
    ELSE IF c.oauthConfig.RefreshToken # "" THEN c.oauthConfig.RefreshToken
    ELSE IF c.currentTokens.set /\ c.currentTokens.RefreshToken # "" THEN c.currentTokens.RefreshToken
    ELSE ""

\* A faulty RefreshOAuthToken: it does not stop when there is no refresh token to send.
RefreshOAuthTokenUnchecked(c, arg, hdr, resp, t) ==
    IF ~c.oauthConfig.set THEN Outcome(c, FailedResult(ErrNoConfig), << >>)
    ELSE GetOAuthToken(c,
            OAuthTokenRequest("refresh_token", c.oauthConfig.ClientID, c.oauthConfig.ClientSecret,
                              "", "", "", TokenToUse(c, arg)),
            hdr, resp, t)

\* RefreshOAuthToken.
RefreshOAuthToken(c, arg, hdr, resp, t) ==
    IF ~c.oauthConfig.set THEN Outcome(c, FailedResult(ErrNoConfig), <<>>)
    ELSE IF TokenToUse(c, arg) = "" THEN Outcome(c, FailedResult(ErrNoRefreshToken), <<>>)
    ELSE GetOAuthToken(c,
            OAuthTokenRequest("refresh_token", c.oauthConfig.ClientID, c.oauthConfig.ClientSecret,
                              "", "", "", TokenToUse(c, arg)),
            hdr, resp, t)

\* InitializeOAuth.
InitializeOAuth(c, userAccessToken, hdr, resp, t) ==
    IF ~c.oauthConfig.set THEN Outcome(c, FailedResult(ErrNoConfig), <<>>)
    ELSE GetOAuthToken(c,
            OAuthTokenRequest("client_credentials", c.oauthConfig.ClientID, c.oauthConfig.ClientSecret,
                              IF Len(userAccessToken) > 0 /\ userAccessToken[1] # ""
                              THEN userAccessToken[1] ELSE "",
                              "", "", ""),
            hdr, resp, t)

\* ExchangeAuthorizationCode.
ExchangeAuthorizationCode(c, code, redirectURI, hdr, resp, t) ==
    IF ~c.oauthConfig.set THEN Outcome(c, FailedResult(ErrNoConfig), <<>>)
    ELSE GetOAuthToken(c,
            OAuthTokenRequest("authorization_code", c.oauthConfig.ClientID, c.oauthConfig.ClientSecret,
                              "", code, redirectURI, ""),
            hdr, resp, t)

\* A faulty TokenStillValid: a token that expires in exactly five minutes counts as valid.
TokenStillValidAtLimit(c, t) ==
    \/ ~c.oauthConfig.set
    \/ ~c.oauthConfig.AutoRefresh
    \/ ~c.tokenExpiresAt.set
    \/ c.tokenExpiresAt.at >= t + FiveMinutes

\* A faulty TokenStillValid: Before in the place of After.
TokenStillValidInverted(c, t) ==
    \/ ~c.oauthConfig.set
    \/ ~c.oauthConfig.AutoRefresh
    \/ ~c.tokenExpiresAt.set
    \/ c.tokenExpiresAt.at < t + FiveMinutes

\* EnsureValidToken, lines 183-191: whether the call returns before refreshing.
\* t is the reading of time.Now() at the check.
TokenStillValid(c, t) ==
    \/ ~c.oauthConfig.set
    \/ ~c.oauthConfig.AutoRefresh
    \/ ~c.tokenExpiresAt.set
    \/ c.tokenExpiresAt.at > t + FiveMinutes

\* A faulty EnsureValidToken: it hands the stored refresh token to RefreshOAuthToken.
EnsureValidTokenStored(c, hdr, resp, t0, t) ==
    IF TokenStillValid(c, t0) THEN Outcome(c, Result(TRUE, "", JNull, ""), <<>>)
    ELSE LET r == RefreshOAuthToken(c, <<c.currentTokens.RefreshToken>>, hdr, resp, t)
         IN IF ~r.result.Success
            THEN Outcome(r.c, FailedResult("failed to refresh token: " \o r.result.Error), r.sent)
            ELSE Outcome(r.c, Result(TRUE, "", JNull, ""), r.sent)

\* EnsureValidToken: result.Error is the returned error ("" for nil), result.Success
\* whether nil is returned.
EnsureValidToken(c, hdr, resp, t0, t) ==
    IF TokenStillValid(c, t0) THEN Outcome(c, Result(TRUE, "", JNull, ""), <<>>)
    ELSE LET r == RefreshOAuthToken(c, <<>>, hdr, resp, t)
         IN IF ~r.result.Success
            THEN Outcome(r.c, FailedResult("failed to refresh token: " \o r.result.Error), r.sent)
            ELSE Outcome(r.c, Result(TRUE, "", JNull, ""), r.sent)

(***************************************************************************)
(* The resource calls: one makeRequest, then parseResponse.                *)
(***************************************************************************)
ApiCall(name, method, path, hasParams, hasBody) ==
    [name |-> name, method |-> method, path |-> path, hasParams |-> hasParams, hasBody |-> hasBody]

ApiCalls ==
    { ApiCall("GetItems", "GET", "/v1/apps/1/collections/2/items", TRUE, FALSE),
      ApiCall("CreateItem", "POST", "/v1/apps/1/collections/2/items", FALSE, TRUE),
      ApiCall("GetCurrentUser", "GET", "/v1/me", FALSE, FALSE) }

\* A faulty ResourceCall: a request that fails at the transport is sent once more.
ResourceCallRetrying(c, call, bodyOk, hdr, resp) ==
    LET mk == makeRequest(c, call.method, call.path, call.hasParams, bodyOk, hdr, resp)
    IN IF mk.err # "" THEN Outcome(c, FailedResult(mk.err), mk.sent \o mk.sent)
       ELSE Outcome(c, parseResponse(resp), mk.sent)

\* GetItems, CreateItem, GetCurrentUser and the calls of their shape.
ResourceCall(c, call, bodyOk, hdr, resp) ==
    LET mk == makeRequest(c, call.method, call.path, call.hasParams, bodyOk, hdr, resp)
    IN IF mk.err # "" THEN Outcome(c, FailedResult(mk.err), mk.sent)
       ELSE Outcome(c, parseResponse(resp), mk.sent)

\* The response of a call that sent no request.
NoResponse == Response("none", "", FALSE, JNull, "")

\* The value of given and returned while no function is studied on its own.
Nothing == [op |-> "none"]

(***************************************************************************)
(* The goroutines around the client and the watcher, and their state while *)
(* none of them has started.                                               *)
(***************************************************************************)
\* The goroutines that call EnsureValidToken concurrently.
Callers == {1, 2}

Caller(pc, token, resp, err) == [pc |-> pc, token |-> token, resp |-> resp, err |-> err]

IdleCaller == Caller("idle", "", NoResponse, "")

RaceAtRest ==
    /\ callers = [i \in Callers |-> IdleCaller]
    /\ recorded = << >>

\* The goroutines that call Run and those that call Stop on the one Watcher.
RunCallers == {1, 2}

StopCallers == {1, 2}

\* NewWatcher: the Watcher it returns, before any call.
NewWatcher ==
    /\ running = FALSE
    /\ runs = [i \in RunCallers |-> [pc |-> "idle", result |-> "none"]]
    /\ stops = [i \in StopCallers |-> [pc |-> "idle"]]
    /\ loops = << >>
    /\ subscriptions = 0

PollAtRest ==
    /\ poll = [pc |-> "none", handler |-> FALSE]
    /\ batch = << >>
    /\ cursor = 0
    /\ handled = {}
    /\ deleted = {}

WatcherAtRest == NewWatcher /\ PollAtRest

(***************************************************************************)
(* The state machine: one action per public operation of the client.       *)
(***************************************************************************)
\* How long a request takes, in seconds.
Latencies == {0, 1}

DirectRequests ==
    { OAuthTokenRequest("client_credentials", id, "s1", "", "", "", "") : id \in {"c1", "c2"} }

Call(op, arg, resp, o, pre, at) ==
    [op |-> op, arg |-> arg, resp |-> IF o.sent = << >> THEN NoResponse ELSE resp,
     result |-> o.result, sent |-> o.sent, pre |-> pre, at |-> at]

Install(c) ==
    /\ accessToken' = c.accessToken
    /\ headers' = c.headers
    /\ oauthConfig' = c.oauthConfig
    /\ currentTokens' = c.currentTokens
    /\ tokenExpiresAt' = c.tokenExpiresAt
    /\ baseURLOk' = c.baseURLOk

\* No call has returned that the caller has not taken the return value of.
NoCall ==
    Call("none", <<>>, NoResponse, Outcome(NewClient("", [k \in {} |-> ""], NilConfig, TRUE), FailedResult(""), <<>>),
         NewClient("", [k \in {} |-> ""], NilConfig, TRUE), 0)

\* The call returns o; it took d seconds when it sent a request.
Return(op, arg, resp, o, d) ==
    /\ last = NoCall
    /\ Install(o.c)
    /\ now' = IF o.sent = <<>> THEN now ELSE now + d
    /\ last' = Call(op, arg, resp, o, Client, now)
    /\ UNCHANGED <<given, returned, raceVars, watcherVars>>

Init ==
    \E token \in {"", "t0"}, custom \in CustomHeaderInputs,
       oauth \in ConfigInputs \cup {NilConfig}, urlOk \in BOOLEAN :
        LET c == NewClient(token, custom, oauth, urlOk)
        IN /\ accessToken = c.accessToken
           /\ headers = c.headers
           /\ oauthConfig = c.oauthConfig
           /\ currentTokens = c.currentTokens
           /\ tokenExpiresAt = c.tokenExpiresAt
           /\ baseURLOk = c.baseURLOk
           /\ now = 0
           /\ last = Call("NewClient", <<oauth>>, NoResponse, Outcome(c, Result(TRUE, "", JNull, ""), <<>>), c, 0)
           /\ given = Nothing
           /\ returned = Nothing
           /\ RaceAtRest
           /\ WatcherAtRest

DoSetAccessToken ==
    \E token \in TokenInputs :
        Return("SetAccessToken", <<token>>, NoResponse,
               Outcome(SetAccessToken(Client, token), Result(TRUE, "", JNull, ""), <<>>), 0)

DoSetOAuthConfig ==
    \E config \in ConfigInputs :
        Return("SetOAuthConfig", <<config>>, NoResponse,
               Outcome(SetOAuthConfig(Client, config), Result(TRUE, "", JNull, ""), <<>>), 0)

DoInitializeOAuth ==
    \E user \in {<<>>, <<"u1">>}, hdr \in FormHeaders(Client), resp \in TokenResponses, d \in Latencies :
        /\ now + d <= MaxNow
        /\ Return("InitializeOAuth", user, resp, InitializeOAuth(Client, user, hdr, resp, now + d), d)

DoExchangeAuthorizationCode ==
    \E code \in {"code1"}, uri \in {"", "https://app/cb"},
       hdr \in FormHeaders(Client), resp \in TokenResponses, d \in Latencies :
        /\ now + d <= MaxNow
        /\ Return("ExchangeAuthorizationCode", <<code, uri>>, resp,
                  ExchangeAuthorizationCode(Client, code, uri, hdr, resp, now + d), d)

DoRefreshOAuthToken ==
    \E arg \in {<<>>, <<"">>, <<"rx">>}, hdr \in FormHeaders(Client), resp \in TokenResponses, d \in Latencies :
        /\ now + d <= MaxNow
        /\ Return("RefreshOAuthToken", arg, resp, RefreshOAuthToken(Client, arg, hdr, resp, now + d), d)

DoGetOAuthToken ==
    \E request \in DirectRequests, hdr \in FormHeaders(Client), resp \in TokenResponses, d \in Latencies :
        /\ now + d <= MaxNow
        /\ Return("GetOAuthToken", <<request.ClientID>>, resp,
                  GetOAuthToken(Client, request, hdr, resp, now + d), d)

DoEnsureValidToken ==
    \E hdr \in FormHeaders(Client), resp \in TokenResponses, d \in Latencies :
        /\ now + d <= MaxNow
        /\ Return("EnsureValidToken", <<>>, resp, EnsureValidToken(Client, hdr, resp, now, now + d), d)

DoResourceCall ==
    \E call \in ApiCalls, bodyOk \in BOOLEAN, hdr \in JSONHeaders(Client), resp \in ApiResponses, d \in Latencies :
        /\ call.hasBody \/ bodyOk
        /\ now + d <= MaxNow
        /\ Return(call.name, <<>>, resp, ResourceCall(Client, call, bodyOk, hdr, resp), d)

\* The caller takes the return value and goes on.
TakeResult ==
    /\ last # NoCall
    /\ last' = NoCall
    /\ UNCHANGED <<accessToken, headers, oauthConfig, currentTokens, tokenExpiresAt, baseURLOk, now>>
    /\ UNCHANGED <<given, returned, raceVars, watcherVars>>

\* Time passes between two calls.
Tick ==
    /\ last = NoCall
    /\ now < MaxNow
    /\ now' = now + 1
    /\ UNCHANGED <<accessToken, headers, oauthConfig, currentTokens, tokenExpiresAt, baseURLOk, last>>
    /\ UNCHANGED <<given, returned, raceVars, watcherVars>>

Next ==
    \/ DoSetAccessToken
    \/ DoSetOAuthConfig
    \/ DoInitializeOAuth
    \/ DoExchangeAuthorizationCode
    \/ DoRefreshOAuthToken
    \/ DoGetOAuthToken
    \/ DoEnsureValidToken
    \/ DoResourceCall
    \/ TakeResult
    \/ Tick

Spec == Init /\ [][Next]_vars

(***************************************************************************)
(* The functions studied on their own.  The client stays as NewClient(nil) *)
(* built it and no call is in progress.                                    *)
(***************************************************************************)
ClientAtRest ==
    LET c == NewClient("", [k \in {} |-> ""], NilConfig, TRUE)
    IN /\ accessToken = c.accessToken
       /\ headers = c.headers
       /\ oauthConfig = c.oauthConfig
       /\ currentTokens = c.currentTokens
       /\ tokenExpiresAt = c.tokenExpiresAt
       /\ baseURLOk = c.baseURLOk
       /\ now = 0
       /\ last = NoCall
       /\ RaceAtRest
       /\ WatcherAtRest

ClientStaysAtRest ==
    UNCHANGED <<accessToken, headers, oauthConfig, currentTokens, tokenExpiresAt, baseURLOk, now, last,
                raceVars, watcherVars>>

(***************************************************************************)
(* parseResponse on the responses a server can send.                       *)
(***************************************************************************)
StatusCodes == {200, 404, 500}

DataMembers ==
    { NoData,
      DataMember(JNull, "null"),
      DataMember(JText, "\"x\""),
      DataMember(JObject(EmptyObject), "{}") }

ErrorMembers ==
    { ErrorMember("absent", "absent", "", ""),
      ErrorMember("null", "absent", "", "null"),
      ErrorMember("object", "string", "not found", "{\"message\":\"not found\",\"code\":\"E404\"}"),
      ErrorMember("object", "absent", "", "{}"),
      ErrorMember("object", "number", "", "{\"message\":404}"),
      ErrorMember("string", "absent", "", "\"not found\"") }

TraceMembers ==
    { TraceMember("absent", "", ""),
      TraceMember("string", "tr5", "\"tr5\""),
      TraceMember("number", "", "5") }

MetaMembers ==
    { MetaMember("absent", NilMeta, ""),
      MetaMember("object", EmptyMeta, "{}"),
      MetaMember("array", NilMeta, "[]") }

Bodies ==
    { ObjectBody(d, e, t, m) : d \in DataMembers, e \in ErrorMembers, t \in TraceMembers, m \in MetaMembers }
    \cup { OtherBody("invalid", "<html>502 Bad Gateway</html>"),
           OtherBody("invalid", ""),
           OtherBody("invalid", "{\"data\":"),
           OtherBody("null", "null"),
           OtherBody("array", "[1,2]"),
           OtherBody("string", "\"ok\""),
           OtherBody("number", "42") }

InitParse ==
    /\ ClientAtRest
    /\ \E status \in StatusCodes, body \in Bodies :
          given = [op |-> "parseResponse", status |-> status, body |-> body]
    /\ returned = Nothing

\* parseResponse(resp) on a response whose body was read.
DoParseResponse ==
    /\ given.op = "parseResponse"
    /\ returned = Nothing
    /\ returned' = [op |-> "parseResponse", result |-> parseResponse(Unmarshal(given.body))]
    /\ UNCHANGED given
    /\ ClientStaysAtRest

NextParse == DoParseResponse

SpecParse == InitParse /\ [][NextParse]_vars

(***************************************************************************)
(* NewClient: the base URL, access token and timeout it settles on, from   *)
(* the ClientConfig and the environment.  A string that is parsed is the   *)
(* sequence of its characters; a duration is counted in milliseconds.      *)
(***************************************************************************)
ClientConfig(baseURL, token, timeout) ==
    [BaseURL |-> baseURL, AccessToken |-> token, Timeout |-> timeout]

Environment(url, token, timeout) ==
    [CARTHOOKS_API_URL |-> url, CARTHOOKS_ACCESS_TOKEN |-> token, CARTHOOKS_TIMEOUT |-> timeout]

\* The units of time.ParseDuration that are a whole number of milliseconds.
KnownUnits == { <<"m", "s">>, <<"s">>, <<"m">>, <<"h">> }

UnitScale(unit) ==
    CASE unit = <<"m", "s">> -> 1
      [] unit = <<"s">> -> 1000
      [] unit = <<"m">> -> 60000
      [] OTHER -> 3600000

\* The number of leading characters of chars that are neither a digit nor a point.
RECURSIVE LeadingUnit(_)
LeadingUnit(chars) ==
    IF chars = << >> \/ Head(chars) \in Digits \cup {"."} THEN 0
    ELSE 1 + LeadingUnit(Tail(chars))

\* time.ParseDuration on a string without sign or fraction: one or more groups of
\* digits followed by a unit.
RECURSIVE ParseDuration(_)
ParseDuration(chars) ==
    LET count == LeadingCount(chars, Digits)
        rest == SubSeq(chars, count + 1, Len(chars))
        unitLen == LeadingUnit(rest)
        unit == SubSeq(rest, 1, unitLen)
        after == SubSeq(rest, unitLen + 1, Len(rest))
        this == DecimalValue(SubSeq(chars, 1, count)) * UnitScale(unit)
    IN IF chars = <<"0">> THEN [ok |-> TRUE, ms |-> 0]
       ELSE IF count = 0 \/ unit \notin KnownUnits THEN [ok |-> FALSE, ms |-> 0]
       ELSE IF after = << >> THEN [ok |-> TRUE, ms |-> this]
       ELSE LET more == ParseDuration(after)
            IN [ok |-> more.ok, ms |-> IF more.ok THEN this + more.ms ELSE 0]

\* NewClient, lines 280-286.
ResolveBaseURL(config, env) ==
    IF config.BaseURL # "" THEN config.BaseURL
    ELSE IF env.CARTHOOKS_API_URL # "" THEN env.CARTHOOKS_API_URL
    ELSE DefaultBaseURL

\* NewClient, lines 288-291.
ResolveAccessToken(config, env) ==
    IF config.AccessToken # "" THEN config.AccessToken ELSE env.CARTHOOKS_ACCESS_TOKEN

\* NewClient, lines 293-303.
ResolveTimeout(config, env) ==
    IF config.Timeout # 0 THEN config.Timeout
    ELSE LET parsed == ParseDuration(env.CARTHOOKS_TIMEOUT \o <<"s">>)
             timeout == IF env.CARTHOOKS_TIMEOUT # << >> /\ parsed.ok THEN parsed.ms ELSE 0
         IN IF timeout = 0 THEN DefaultTimeout ELSE timeout

TimeoutTexts ==
    { << >>, <<"1", "0">>, <<"1", "0", "s">>, <<"3", "0", "s">>, <<"1", "m">>,
      <<"a", "b", "c">>, <<"0">> }

InitNewClient ==
    /\ ClientAtRest
    /\ \E baseURL \in {"", "https://custom.api.com"}, token \in {"", "test-token"},
          timeout \in {0, 10000},
          envURL \in {"", "https://env.api.com"}, envToken \in {"", "env-token"},
          envTimeout \in TimeoutTexts :
            given = [op |-> "NewClient", config |-> ClientConfig(baseURL, token, timeout),
                     env |-> Environment(envURL, envToken, envTimeout)]
    /\ returned = Nothing

\* NewClient(config) in the environment env.
DoNewClient ==
    /\ given.op = "NewClient"
    /\ returned = Nothing
    /\ returned' = [op |-> "NewClient",
                    baseURL |-> ResolveBaseURL(given.config, given.env),
                    accessToken |-> ResolveAccessToken(given.config, given.env),
                    timeout |-> ResolveTimeout(given.config, given.env)]
    /\ Install(NewClient(ResolveAccessToken(given.config, given.env), [k \in {} |-> ""], NilConfig, TRUE))
    /\ UNCHANGED <<given, now, last, raceVars, watcherVars>>

NextNewClient == DoNewClient

SpecNewClient == InitNewClient /\ [][NextNewClient]_vars

(***************************************************************************)
(* The accessors of Result on the Results a caller can hold: those         *)
(* parseResponse builds and those built by hand, as the tests do.          *)
(***************************************************************************)
DataValues ==
    { JNull, JObject(EmptyObject), JArray("empty"), JArray("objects"), JArray("strings"),
      JBool(TRUE), JBool(FALSE), JNumber(456, FALSE), JNumber(3, TRUE), GoInt(123),
      JString(<< >>), JString(<<"4", "2">>), JString(<<"-", "7">>), JString(<<"+", "5">>),
      JString(<<"4", "2", "a", "b", "c">>), JString(<<"a", "b", "c">>),
      JString(<<" ", "4", "2">>), JString(<<"1", "2", ".", "5">>) }

PaginationValues ==
    { PaginationData("object", JInt(1), JInt(20), JInt(100), JInt(5)),
      PaginationData("object", JInt(2), JAbsent, JField("null", 0, FALSE), JInt(5)),
      PaginationData("object", JField("string", 1, FALSE), JInt(20), JInt(100), JInt(5)),
      PaginationData("object", JInt(1), JInt(20), JInt(100), JField("number", 4, TRUE)),
      PaginationData("string", JAbsent, JAbsent, JAbsent, JAbsent),
      PaginationData("array", JAbsent, JAbsent, JAbsent, JAbsent),
      PaginationData("null", JAbsent, JAbsent, JAbsent, JAbsent) }

MetaValues == {NilMeta, EmptyMeta} \cup { Meta(TRUE, p) : p \in PaginationValues }

Results ==
    { [Result(success, error, data, "") EXCEPT !.Meta = meta] :
        success \in BOOLEAN, error \in {"", "Test error"}, data \in DataValues, meta \in MetaValues }

InitResult ==
    /\ ClientAtRest
    /\ \E r \in Results : given = [op |-> "Result", r |-> r]
    /\ returned = Nothing

\* The accessor op is called on the Result in given and returns got.
Access(op, got) ==
    /\ given.op = "Result"
    /\ returned = Nothing
    /\ returned' = [op |-> op, got |-> got]
    /\ UNCHANGED given
    /\ ClientStaysAtRest

DoGetData ==
    \E target \in {"RecordFormat", "[]RecordFormat", "interface{}"} :
        Access("GetData", GetData(given.r, target))

DoGetRecords == Access("GetRecords", GetRecords(given.r))

DoGetRecord == Access("GetRecord", GetRecord(given.r))

DoGetString == Access("GetString", GetString(given.r))

DoGetInt == Access("GetInt", GetInt(given.r))

DoGetBool == Access("GetBool", GetBool(given.r))

DoGetPagination == Access("GetPagination", GetPagination(given.r))

NextResult ==
    \/ DoGetData
    \/ DoGetRecords
    \/ DoGetRecord
    \/ DoGetString
    \/ DoGetInt
    \/ DoGetBool
    \/ DoGetPagination

SpecResult == InitResult /\ [][NextResult]_vars

(***************************************************************************)
(* Vocabulary of the claims.                                               *)
(***************************************************************************)
ResourceOps == { call.name : call \in ApiCalls }

ExchangeOps == {"InitializeOAuth", "ExchangeAuthorizationCode", "RefreshOAuthToken"}

IsTokenRequest(req) == req.path = TokenPath

IsRefreshRequest(req) ==
    /\ IsTokenRequest(req)
    /\ "grant_type" \in DOMAIN req.form
    /\ req.form["grant_type"] = "refresh_token"

\* The client c knows at time t that its token expires within five minutes.
KnownNearExpiry(c, t) ==
    /\ c.oauthConfig.set
    /\ c.oauthConfig.AutoRefresh
    /\ c.tokenExpiresAt.set
    /\ c.tokenExpiresAt.at <= t + FiveMinutes

\* The answer decodes as an envelope without an error object.
SuccessfulAnswer(resp) == resp.kind = "envelope" /\ ~resp.hasError

\* C1: with OAuth configured, AutoRefresh on and the expiry instant at most five
\* minutes ahead, a resource call refreshes the token before it sends its request:
\* every API request it sends comes after a refresh request of the same call.
C1_RefreshBeforeSend ==
    (last.op \in ResourceOps /\ KnownNearExpiry(last.pre, last.at))
        => \A i \in DOMAIN last.sent :
              ~IsTokenRequest(last.sent[i])
                  => \E j \in 1..(i - 1) : IsRefreshRequest(last.sent[j])

\* C2: after a successful InitializeOAuth, ExchangeAuthorizationCode or
\* RefreshOAuthToken, the current tokens hold the non-empty access token of the
\* response, the Authorization header is "Bearer " and that token, and when the
\* response's expires_in is positive the expiry instant is later than the time of
\* the call.
C2_SuccessStoresTokens ==
    (last.op \in ExchangeOps /\ last.result.Success)
        => LET data == last.resp.data.obj
           IN /\ last.resp.data.type = "object"
              /\ data.access_token.isString
              /\ data.access_token.s # ""
              /\ currentTokens.set
              /\ currentTokens.AccessToken = data.access_token.s
              /\ "Authorization" \in DOMAIN headers
              /\ headers["Authorization"] = "Bearer " \o data.access_token.s
              /\ JPositive(data.expires_in)
                    => (tokenExpiresAt.set /\ tokenExpiresAt.at > last.at)

\* C3: the expiry instant is set exactly when tokens have been stored and the
\* tokens stored last have a positive expires_in; a successful exchange whose
\* response has expires_in 0 or none leaves the client without an expiry instant.
C3_ExpirySetIffPositive ==
    /\ tokenExpiresAt.set <=> (currentTokens.set /\ currentTokens.ExpiresIn > 0)
    /\ (/\ last.op \in ExchangeOps
        /\ last.result.Success
        /\ last.resp.data.type = "object"
        /\ ~JPositive(last.resp.data.obj.expires_in))
            => ~tokenExpiresAt.set

\* The refresh token a no-argument refresh of client c has to send: the configured
\* one when there is one, otherwise the stored one ("" when there is none).
AvailableRefreshToken(c) ==
    IF c.oauthConfig.RefreshToken # "" THEN c.oauthConfig.RefreshToken
    ELSE IF c.currentTokens.set THEN c.currentTokens.RefreshToken
    ELSE ""

\* The call in last is an EnsureValidToken that found the token near expiry with a
\* refresh token available.
EnsureHadToRefresh ==
    /\ last.op = "EnsureValidToken"
    /\ KnownNearExpiry(last.pre, last.at)
    /\ AvailableRefreshToken(last.pre) # ""

\* The call in last sent exactly one request, a refresh request, and returned nil
\* exactly when the answer to it was successful.
OneRefreshDecides ==
    /\ Len(last.sent) = 1
    /\ IsRefreshRequest(last.sent[1])
    /\ last.sent[1].method = "POST"
    /\ last.result.Success <=> SuccessfulAnswer(last.resp)
    /\ ~last.result.Success => last.result.Error # ""

\* C4: an EnsureValidToken that finds the token near expiry (at most five minutes
\* ahead, or past), with AutoRefresh on and a refresh token available, sends
\* exactly one request, a refresh request, and returns nil exactly when the answer
\* to it is successful, an error otherwise.
C4_EnsureRefreshesOnce == EnsureHadToRefresh => OneRefreshDecides

\* C4, witness: such a call sent its one refresh request at the very limit of five
\* minutes and returned nil.
C4_Witness ==
    /\ EnsureHadToRefresh
    /\ last.pre.tokenExpiresAt.at = last.at + FiveMinutes
    /\ Len(last.sent) = 1
    /\ last.result.Success

\* C5: EnsureValidToken returns nil, sends no request and changes nothing of the
\* client when there is no OAuth configuration, AutoRefresh is off, no expiry
\* instant is recorded, or the expiry instant is more than five minutes ahead.
C5_EnsureNoOp ==
    (/\ last.op = "EnsureValidToken"
     /\ \/ ~last.pre.oauthConfig.set
        \/ ~last.pre.oauthConfig.AutoRefresh
        \/ ~last.pre.tokenExpiresAt.set
        \/ last.pre.tokenExpiresAt.at > last.at + FiveMinutes)
        => /\ last.result.Success
           /\ last.result.Error = ""
           /\ last.sent = << >>
           /\ Client = last.pre
           /\ now = last.at

\* C5, witness: EnsureValidToken returned on a client with AutoRefresh on whose
\* expiry instant was five minutes and one second ahead.
C5_Witness ==
    /\ last.op = "EnsureValidToken"
    /\ last.pre.oauthConfig.set
    /\ last.pre.oauthConfig.AutoRefresh
    /\ last.pre.tokenExpiresAt.set
    /\ last.pre.tokenExpiresAt.at = last.at + FiveMinutes + 1
    /\ last.sent = << >>

\* The first non-empty of the explicit argument, the configured refresh token and
\* the stored refresh token of the call in last ("" when all are empty).
FirstNonEmptyRefreshToken ==
    LET explicit == IF Len(last.arg) > 0 THEN last.arg[1] ELSE ""
    IN IF explicit # "" THEN explicit ELSE AvailableRefreshToken(last.pre)

\* C6: RefreshOAuthToken sends as refresh_token the first non-empty of the explicit
\* argument, the configured refresh token and the stored refresh token; it sends
\* its request whenever one of them is non-empty and the request can be built.
C6_RefreshTokenPrecedence ==
    last.op = "RefreshOAuthToken"
        => /\ \A i \in DOMAIN last.sent :
                /\ IsRefreshRequest(last.sent[i])
                /\ "refresh_token" \in DOMAIN last.sent[i].form
                /\ last.sent[i].form["refresh_token"] = FirstNonEmptyRefreshToken
           /\ (/\ last.pre.oauthConfig.set
               /\ last.pre.baseURLOk
               /\ FirstNonEmptyRefreshToken # "")
                  => Len(last.sent) = 1

\* C6, witness: a refresh called with an empty argument on a client that has both a
\* configured and a different stored refresh token sent the configured one.
C6_Witness ==
    /\ last.op = "RefreshOAuthToken"
    /\ last.arg = <<"">>
    /\ last.pre.oauthConfig.RefreshToken # ""
    /\ last.pre.currentTokens.RefreshToken # ""
    /\ last.pre.currentTokens.RefreshToken # last.pre.oauthConfig.RefreshToken
    /\ Len(last.sent) = 1
    /\ last.sent[1].form["refresh_token"] = last.pre.oauthConfig.RefreshToken

\* C7: after SetOAuthConfig has installed a configuration without a refresh token,
\* the refresh token stored by an earlier exchange is gone: the RefreshOAuthToken()
\* that follows fails with "No refresh token available" and sends no request.
C7_ReplacedConfigDropsStoredToken ==
    (last.op = "SetOAuthConfig" /\ oauthConfig.RefreshToken = "")
        => \A hdr \in FormHeaders(Client), resp \in TokenResponses :
              LET o == RefreshOAuthToken(Client, << >>, hdr, resp, now)
              IN /\ ~o.result.Success
                 /\ o.result.Error = ErrNoRefreshToken
                 /\ o.sent = << >>

\* The call in last failed with message msg, sent nothing and left the client as it was.
FailedWithoutEffect(msg) ==
    /\ ~last.result.Success
    /\ last.result.Error = msg
    /\ last.sent = << >>
    /\ Client = last.pre
    /\ now = last.at

\* C8: InitializeOAuth, ExchangeAuthorizationCode and RefreshOAuthToken without an
\* OAuth configuration fail with "OAuth configuration not provided"; a
\* RefreshOAuthToken with no explicit, configured or stored refresh token fails with
\* "No refresh token available"; either way no request is sent and the client is
\* unchanged.
C8_PreconditionFailures ==
    /\ (last.op \in ExchangeOps /\ ~last.pre.oauthConfig.set)
          => FailedWithoutEffect("OAuth configuration not provided")
    /\ (/\ last.op = "RefreshOAuthToken"
        /\ last.pre.oauthConfig.set
        /\ FirstNonEmptyRefreshToken = "")
          => FailedWithoutEffect("No refresh token available")

\* C8, witness: a RefreshOAuthToken on a configured client that holds tokens without
\* a refresh token, called with an empty argument, has failed.
C8_Witness ==
    /\ last.op = "RefreshOAuthToken"
    /\ last.arg = <<"">>
    /\ last.pre.oauthConfig.set
    /\ last.pre.currentTokens.set
    /\ FirstNonEmptyRefreshToken = ""
    /\ ~last.result.Success

\* C9: for a client holding access token T, every request of a resource call carries
\* Authorization: Bearer T, and every token request carries no Authorization
\* header, whatever the custom headers of the client.
C9_BearerOnApiOnly ==
    \A i \in DOMAIN last.sent :
        IF IsTokenRequest(last.sent[i])
        THEN "Authorization" \notin DOMAIN last.sent[i].header
        ELSE last.pre.accessToken # ""
                => /\ "Authorization" \in DOMAIN last.sent[i].header
                   /\ last.sent[i].header["Authorization"] = "Bearer " \o last.pre.accessToken

\* C10: SetAccessToken(t) sets the access token to t and the Authorization header to
\* "Bearer " and t, and leaves the current tokens (with their refresh token), the
\* expiry instant, the OAuth configuration and the other headers as they were.
C10_SetAccessTokenFrame ==
    last.op = "SetAccessToken"
        => /\ accessToken = last.arg[1]
           /\ "Authorization" \in DOMAIN headers
           /\ headers["Authorization"] = "Bearer " \o last.arg[1]
           /\ DOMAIN headers = DOMAIN last.pre.headers \cup {"Authorization"}
           /\ \A k \in DOMAIN last.pre.headers \ {"Authorization"} : headers[k] = last.pre.headers[k]
           /\ currentTokens = last.pre.currentTokens
           /\ tokenExpiresAt = last.pre.tokenExpiresAt
           /\ oauthConfig = last.pre.oauthConfig
           /\ baseURLOk = last.pre.baseURLOk
           /\ last.sent = << >>

\* C10, witness: SetAccessToken has replaced the token of a client whose stored
\* tokens, with a refresh token and an expiry instant, name another access token.
C10_Witness ==
    /\ last.op = "SetAccessToken"
    /\ currentTokens.set
    /\ currentTokens.RefreshToken # ""
    /\ tokenExpiresAt.set
    /\ currentTokens.AccessToken # accessToken
    /\ last.pre.accessToken # accessToken

\* parseResponse has returned for the response in given.
Parsed == given.op = "parseResponse" /\ returned.op = "parseResponse"

\* Each member of the envelope is absent, null or of the JSON type of its field.
MembersFitEnvelope(body) ==
    /\ body.error.kind \in {"absent", "null", "object"}
    /\ body.error.kind = "object" => body.error.messageKind \in {"absent", "string"}
    /\ body.trace_id.kind \in {"absent", "string"}
    /\ body.meta.kind \in {"absent", "object"}

\* The body decodes as the envelope: a JSON object whose members fit, or JSON null,
\* which decodes as the envelope without members.
DecodesAsEnvelope(body) ==
    \/ body.json = "null"
    \/ (body.json = "object" /\ MembersFitEnvelope(body))

HasErrorObject(body) == body.json = "object" /\ body.error.kind = "object"

\* C11: when the body decodes as the envelope, the Result is successful exactly
\* when the envelope has no error object, whatever the HTTP status code; when it
\* has one, Error is error.message and TraceID is the envelope's trace_id.
C11_SuccessIffNoErrorObject ==
    (Parsed /\ DecodesAsEnvelope(given.body))
        => /\ returned.result.Success <=> ~HasErrorObject(given.body)
           /\ HasErrorObject(given.body)
                 => /\ returned.result.Error = given.body.error.message
                    /\ returned.result.TraceID = given.body.trace_id.s

\* C11, witness: a response with status 500 whose envelope has data and no error
\* object gave a successful Result.
C11_Witness ==
    /\ Parsed
    /\ given.status = 500
    /\ given.body.json = "object"
    /\ given.body.data.present
    /\ ~HasErrorObject(given.body)
    /\ returned.result.Success

\* C12: when the body does not decode as the envelope (text that is not JSON, or
\* JSON of another shape), the Result is unsuccessful, its Error is the text of the
\* body exactly, and it has no data.
C12_UndecodableGivesRawBody ==
    (Parsed /\ ~DecodesAsEnvelope(given.body))
        => /\ ~returned.result.Success
           /\ returned.result.Error = given.body.raw
           /\ returned.result.Data = JNull

\* C12, witness: a JSON object whose error member is a string, sent with data,
\* gave a failed Result.
C12_Witness ==
    /\ Parsed
    /\ given.body.json = "object"
    /\ given.body.error.kind = "string"
    /\ given.body.data.present
    /\ ~returned.result.Success
    /\ returned.result.Error = given.body.raw

\* The operations that return a *Result.
ResultOps == ResourceOps \cup ExchangeOps \cup {"GetOAuthToken"}

\* C13: every Result a client operation returns has an empty Error when it is
\* successful and no data when it is not, so that HasError() is the negation of
\* Success on it.
C13_ResultShape ==
    last.op \in ResultOps
        => /\ last.result.Success => last.result.Error = ""
           /\ ~last.result.Success => last.result.Data = JNull
           /\ HasError(last.result) <=> ~last.result.Success

\* C13, witness: a resource call answered by an envelope with both an error object
\* and data returned a failed Result without data.
C13_Witness ==
    /\ last.op \in ResourceOps
    /\ Len(last.sent) = 1
    /\ last.resp.kind = "envelope"
    /\ last.resp.hasError
    /\ last.resp.data # JNull
    /\ ~last.result.Success
    /\ last.result.Data = JNull

\* The text of the error makeRequest and makeFormRequest return for a transport
\* failure with this text.
TransportErrorText(text) == "request failed: " \o text

\* C14: every operation sends at most one request per call; when that request
\* fails at the transport, an operation that returns a Result returns, without a
\* second request, a failed Result whose Error is the text of the transport error,
\* with no data, trace id or meta.
C14_OneRequestNoRetry ==
    /\ Len(last.sent) <= 1
    /\ (/\ last.op \in ResultOps
        /\ Len(last.sent) = 1
        /\ last.resp.kind = "transport_error")
          => /\ ~last.result.Success
             /\ last.result.Error = TransportErrorText(last.resp.text)
             /\ last.result.Data = JNull
             /\ last.result.TraceID = ""
             /\ last.result.Meta = NilMeta
             /\ Client = last.pre

\* C14, witness: a resource call whose one request failed at the transport returned
\* a failed Result.
C14_Witness ==
    /\ last.op \in ResourceOps
    /\ Len(last.sent) = 1
    /\ last.resp.kind = "transport_error"
    /\ ~last.result.Success

\* A request of a token exchange or refresh: its body is a form with a grant type.
CarriesGrant(req) == "grant_type" \in DOMAIN req.form

\* C15: every token exchange or refresh is a POST to /open/api/oauth/token under
\* the base URL, and GetCurrentUser is a GET to /open/api/v1/me under the base URL.
C15_DocumentedPaths ==
    \A i \in DOMAIN last.sent :
        /\ CarriesGrant(last.sent[i])
              => /\ last.sent[i].method = "POST"
                 /\ last.sent[i].path = "/open/api/oauth/token"
        /\ last.op = "GetCurrentUser"
              => /\ last.sent[i].method = "GET"
                 /\ last.sent[i].path = "/open/api/v1/me"

\* The form fields of the flow of the call in last, beside grant_type, client_id and
\* client_secret: each argument of the flow that is not empty, under its field name.
FlowFields ==
    CASE last.op = "InitializeOAuth" ->
            IF Len(last.arg) > 0 /\ last.arg[1] # ""
            THEN [k \in {"user_access_token"} |-> last.arg[1]]
            ELSE [k \in {} |-> ""]
      [] last.op = "ExchangeAuthorizationCode" ->
            [k \in (IF last.arg[1] # "" THEN {"code"} ELSE {})
                        \cup (IF last.arg[2] # "" THEN {"redirect_uri"} ELSE {}) |->
                IF k = "code" THEN last.arg[1] ELSE last.arg[2]]
      [] OTHER ->
            [k \in {"refresh_token"} |-> FirstNonEmptyRefreshToken]

FlowGrantType ==
    CASE last.op = "InitializeOAuth" -> "client_credentials"
      [] last.op = "ExchangeAuthorizationCode" -> "authorization_code"
      [] OTHER -> "refresh_token"

Accessed(ops) == given.op = "Result" /\ returned.op \in ops

\* The value an accessor returns beside an error.
ZeroValue(op) ==
    CASE op = "GetString" -> JString(<< >>)
      [] op = "GetInt" -> GoInt(0)
      [] op = "GetBool" -> JBool(FALSE)
      [] OTHER -> JNull

\* C17: on a Result that is not successful, GetData, GetRecords, GetRecord,
\* GetString, GetInt and GetBool return an error and the zero value, whatever Data
\* holds; GetData, GetRecords and GetRecord return an error too on a successful
\* Result without data; no accessor returns a value from a Result that is not
\* successful or has no data.
C17_NoValueFromFailure ==
    /\ (Accessed({"GetData", "GetRecords", "GetRecord", "GetString", "GetInt", "GetBool"})
            /\ (~given.r.Success \/ given.r.Data = JNull))
          => /\ returned.got.err # ""
             /\ returned.got.value = ZeroValue(returned.op)
    /\ (Accessed({"GetData", "GetRecords", "GetRecord", "GetString", "GetInt", "GetBool"})
            /\ returned.got.err # "")
          => returned.got.value = ZeroValue(returned.op)

\* C17, witness: GetString on a Result that is not successful and holds a string
\* returned an error and the empty string.
C17_Witness ==
    /\ Accessed({"GetString"})
    /\ ~given.r.Success
    /\ given.r.Data.type = "string"
    /\ given.r.Data.s # << >>
    /\ returned.got.err # ""
    /\ returned.got.value = JString(<< >>)

\* The characters are a base-10 integer and nothing else: an optional sign, then
\* one digit or more.
WhollyInteger(chars) ==
    LET unsigned == IF chars # << >> /\ Head(chars) \in {"+", "-"} THEN Tail(chars) ELSE chars
    IN /\ unsigned # << >>
       /\ \A i \in DOMAIN unsigned : unsigned[i] \in Digits

IntegerOf(chars) ==
    IF Head(chars) = "-" THEN 0 - DecimalValue(Tail(chars))
    ELSE IF Head(chars) = "+" THEN DecimalValue(Tail(chars))
    ELSE DecimalValue(chars)

\* C18: on a successful Result, GetInt returns the integer when Data is a number
\* or a string that is wholly a base-10 integer, and an error for every other
\* Data: a string with anything else in it, a boolean, an object, an array, no data.
C18_GetIntWholeStringsOnly ==
    (Accessed({"GetInt"}) /\ given.r.Success)
        => LET data == given.r.Data
           IN IF data.type \in {"number", "int"}
              THEN /\ returned.got.err = ""
                   /\ ~data.frac => returned.got.value = GoInt(data.whole)
              ELSE IF data.type = "string" /\ WhollyInteger(data.s)
              THEN /\ returned.got.err = ""
                   /\ returned.got.value = GoInt(IntegerOf(data.s))
              ELSE /\ returned.got.err # ""
                   /\ returned.got.value = GoInt(0)

\* The value under meta.pagination is an object whose four members are whole numbers.
WellFormedPagination(p) ==
    /\ p.type = "object"
    /\ \A f \in {p.page, p.pageSize, p.total, p.totalPages} : f.kind = "number" /\ ~f.frac

\* The value under meta.pagination is not an object, or one of its four members is
\* present and not a whole number.
MalformedPagination(p) ==
    \/ p.type \in {"string", "array"}
    \/ /\ p.type = "object"
       /\ \E f \in {p.page, p.pageSize, p.total, p.totalPages} :
              f.kind = "string" \/ (f.kind = "number" /\ f.frac)

\* C19: GetPagination reports "no pagination" when Meta is absent or has no
\* pagination key; it returns the record of page, pageSize, total and totalPages
\* when meta.pagination is well formed; when meta.pagination is present and
\* malformed it reports a failure that differs from "no pagination".
C19_MalformedPaginationTold ==
    Accessed({"GetPagination"})
        => LET meta == given.r.Meta
               p == meta.pagination
           IN /\ (~meta.set \/ ~meta.hasPagination) => returned.got = NilPagination
              /\ (meta.set /\ meta.hasPagination /\ WellFormedPagination(p))
                    => returned.got = PaginationMeta(p.page.whole, p.pageSize.whole,
                                                     p.total.whole, p.totalPages.whole)
              /\ (meta.set /\ meta.hasPagination /\ MalformedPagination(p))
                    => returned.got # NilPagination

\* The values of CARTHOOKS_TIMEOUT written with a unit suffix, as documented, and
\* the timeout each one names, in milliseconds.
DocumentedTimeouts ==
    { [text |-> <<"3", "0", "s">>, ms |-> 30000],
      [text |-> <<"1", "0", "s">>, ms |-> 10000],
      [text |-> <<"1", "m">>, ms |-> 60000] }

\* C20: NewClient takes the base URL, the access token and the timeout each from
\* the ClientConfig when set there, otherwise from CARTHOOKS_API_URL,
\* CARTHOOKS_ACCESS_TOKEN and CARTHOOKS_TIMEOUT (written with a unit suffix, as
\* "30s" or "10s"), otherwise the default: https://api.carthooks.com, no token,
\* 30 seconds.
C20_ConfigThenEnvThenDefault ==
    (given.op = "NewClient" /\ returned.op = "NewClient")
        => LET config == given.config
               env == given.env
           IN /\ returned.baseURL =
                    IF config.BaseURL # "" THEN config.BaseURL
                    ELSE IF env.CARTHOOKS_API_URL # "" THEN env.CARTHOOKS_API_URL
                    ELSE "https://api.carthooks.com"
              /\ returned.accessToken =
                    IF config.AccessToken # "" THEN config.AccessToken
                    ELSE env.CARTHOOKS_ACCESS_TOKEN
              /\ accessToken = returned.accessToken
              /\ config.Timeout # 0 => returned.timeout = config.Timeout
              /\ (config.Timeout = 0 /\ env.CARTHOOKS_TIMEOUT = << >>) => returned.timeout = 30000
              /\ \A d \in DocumentedTimeouts :
                    (config.Timeout = 0 /\ env.CARTHOOKS_TIMEOUT = d.text) => returned.timeout = d.ms

\* The operations that exchange or refresh tokens.
TokenOps == ExchangeOps \cup {"GetOAuthToken", "EnsureValidToken"}

\* The credentials of the client are those it had before the call in last.
CredentialsUntouched ==
    /\ currentTokens = last.pre.currentTokens
    /\ tokenExpiresAt = last.pre.tokenExpiresAt
    /\ accessToken = last.pre.accessToken
    /\ headers = last.pre.headers

\* C21: when a token exchange or refresh returns an unsuccessful Result (the
\* transport failed, the envelope has an error, the body does not decode), the
\* stored tokens with their refresh token, the expiry instant, the access token
\* and the Authorization header are what they were before the call.
C21_FailureLeavesCredentials ==
    (last.op \in TokenOps /\ ~last.result.Success) => CredentialsUntouched

\* C21, witness: a refresh answered by an error envelope failed on a client that
\* held tokens with a refresh token and an expiry instant.
C21_Witness ==
    /\ last.op = "RefreshOAuthToken"
    /\ Len(last.sent) = 1
    /\ last.resp.kind = "envelope"
    /\ last.resp.hasError
    /\ ~last.result.Success
    /\ last.pre.currentTokens.set
    /\ last.pre.currentTokens.RefreshToken # ""
    /\ last.pre.tokenExpiresAt.set
    /\ currentTokens = last.pre.currentTokens

\* C22: after an EnsureValidToken that sent a refresh, saw it succeed and returned
\* nil, the client is fresh: an EnsureValidToken called at once sends no request.
C22_FreshAfterRefresh ==
    (last.op = "EnsureValidToken" /\ Len(last.sent) = 1 /\ last.result.Success)
        => \A hdr \in FormHeaders(Client), resp \in TokenResponses :
              EnsureValidToken(Client, hdr, resp, now, now).sent = << >>

\* C23: a successful exchange whose response has no refresh_token keeps the refresh
\* token stored by an earlier exchange, and a RefreshOAuthToken() after it still
\* sends that refresh token.
C23_RefreshTokenKept ==
    (/\ last.op \in ExchangeOps
     /\ last.result.Success
     /\ last.resp.data.type = "object"
     /\ ~last.resp.data.obj.refresh_token.isString
     /\ last.pre.currentTokens.RefreshToken # "")
        => /\ currentTokens.RefreshToken = last.pre.currentTokens.RefreshToken
           /\ oauthConfig.RefreshToken = ""
                 => \A hdr \in FormHeaders(Client), resp \in TokenResponses :
                       LET o == RefreshOAuthToken(Client, << >>, hdr, resp, now)
                       IN /\ Len(o.sent) = 1
                          /\ "refresh_token" \in DOMAIN o.sent[1].form
                          /\ o.sent[1].form["refresh_token"] = last.pre.currentTokens.RefreshToken

\* A refresh with no refresh token handed in: RefreshOAuthToken() or the refresh of
\* an EnsureValidToken that did not return at its check.
RefreshWithoutArgument ==
    \/ last.op = "RefreshOAuthToken" /\ (Len(last.arg) = 0 \/ last.arg[1] = "")
    \/ last.op = "EnsureValidToken" /\ ~TokenStillValid(last.pre, last.at)

\* C25: while the OAuth configuration holds a refresh token, a refresh with no
\* argument, and the refresh of EnsureValidToken, sends one request whose refresh_token
\* is the configured one, whatever refresh token the current tokens hold.
C25_ConfiguredTokenSent ==
    (/\ RefreshWithoutArgument
     /\ last.pre.oauthConfig.set
     /\ last.pre.oauthConfig.RefreshToken # ""
     /\ last.pre.baseURLOk)
        => /\ Len(last.sent) = 1
           /\ "refresh_token" \in DOMAIN last.sent[1].form
           /\ last.sent[1].form["refresh_token"] = last.pre.oauthConfig.RefreshToken

C25_Witness ==
    /\ last.op = "EnsureValidToken"
    /\ Len(last.sent) = 1
    /\ last.pre.oauthConfig.RefreshToken # ""
    /\ last.pre.currentTokens.set
    /\ last.pre.currentTokens.RefreshToken \notin {"", last.pre.oauthConfig.RefreshToken}
    /\ last.sent[1].form["refresh_token"] = last.pre.oauthConfig.RefreshToken

\* The four conditions under which GetOAuthToken records tokens, read from the call.
RecordsTokens ==
    /\ last.result.Success
    /\ last.pre.oauthConfig.set
    /\ last.arg[1] = last.pre.oauthConfig.ClientID
    /\ last.resp.kind = "envelope"
    /\ last.resp.data.type = "object"

\* C26: GetOAuthToken returns the Result of the response as it is; it records tokens,
\* expiry and access token when the Result is successful, a configuration exists, the
\* client_id of the request is the configured one and the data is a JSON object, and
\* leaves the client as it was in every other case.
C26_RecordsOnlyOwnTokens ==
    (last.op = "GetOAuthToken" /\ Len(last.sent) = 1)
        => /\ last.resp.kind # "transport_error" => last.result = parseResponse(last.resp)
           /\ IF RecordsTokens
              THEN /\ currentTokens = TokensOf(last.resp.data.obj)
                   /\ accessToken = currentTokens.AccessToken
                   /\ headers["Authorization"] = "Bearer " \o currentTokens.AccessToken
                   /\ currentTokens.ExpiresIn > 0
                         => tokenExpiresAt = TimeAt(now + currentTokens.ExpiresIn)
              ELSE Client = last.pre

C26_Witness ==
    /\ last.op = "GetOAuthToken"
    /\ Len(last.sent) = 1
    /\ last.result.Success
    /\ last.resp.data.type = "object"
    /\ last.resp.data.obj.access_token.isString
    /\ last.pre.oauthConfig.set
    /\ last.arg[1] # last.pre.oauthConfig.ClientID
    /\ Client = last.pre

\* The token expires within five minutes of the instant t, or has expired.
NearExpiry(c, t) == c.tokenExpiresAt.set /\ c.tokenExpiresAt.at <= t + FiveMinutes

RaceClients ==
    { InitializeOAuth(NewClient("t0", [k \in {} |-> ""], config, TRUE), << >>,
                      [k \in {} |-> ""], resp, 0).c :
        config \in ConfigInputs, resp \in TokenResponses }

InitRace ==
    /\ \E c \in RaceClients :
          /\ accessToken = c.accessToken
          /\ headers = c.headers
          /\ oauthConfig = c.oauthConfig
          /\ currentTokens = c.currentTokens
          /\ tokenExpiresAt = c.tokenExpiresAt
          /\ baseURLOk = c.baseURLOk
    /\ now = 0
    /\ last = NoCall
    /\ given = Nothing
    /\ returned = Nothing
    /\ RaceAtRest
    /\ WatcherAtRest

RaceFrame == UNCHANGED <<now, last, given, returned, watcherVars>>

\* The goroutine i moves to pc.
Goto(i, pc, token, resp, err) == callers' = [callers EXCEPT ![i] = Caller(pc, token, resp, err)]

\* EnsureValidToken, lines 183-191: the check.
RaceCheck(i) ==
    /\ callers[i].pc = "idle"
    /\ Goto(i, IF TokenStillValid(Client, now) THEN "done" ELSE "refresh", "", NoResponse, "")
    /\ UNCHANGED <<accessToken, headers, oauthConfig, currentTokens, tokenExpiresAt, baseURLOk, recorded>>
    /\ RaceFrame

\* RefreshOAuthToken and makeFormRequest up to client.Do: the request leaves.
RaceSend(i) ==
    /\ callers[i].pc = "refresh"
    /\ LET token == TokenToUse(Client, << >>)
       IN IF token = ""
          THEN Goto(i, "done", "", NoResponse, "failed to refresh token: " \o ErrNoRefreshToken)
          ELSE IF ~baseURLOk
          THEN Goto(i, "done", "", NoResponse, "failed to refresh token: failed to create request: parse error")
          ELSE Goto(i, "sent", token, NoResponse, "")
    /\ UNCHANGED <<accessToken, headers, oauthConfig, currentTokens, tokenExpiresAt, baseURLOk, recorded>>
    /\ RaceFrame

\* The answer arrives: parseResponse, and GetOAuthToken lines 44-68.
RaceReceive(i) ==
    /\ callers[i].pc = "sent"
    /\ \E resp \in TokenResponses :
          LET result == parseResponse(resp)
              request == OAuthTokenRequest("refresh_token", oauthConfig.ClientID, oauthConfig.ClientSecret,
                                           "", "", "", callers[i].token)
          IN IF resp.kind = "transport_error" \/ ~result.Success
             THEN /\ Goto(i, "done", callers[i].token, resp,
                          "failed to refresh token: " \o
                              (IF resp.kind = "transport_error"
                               THEN "request failed: " \o resp.text ELSE result.Error))
                  /\ UNCHANGED <<currentTokens, tokenExpiresAt, recorded>>
             ELSE IF ShouldStore(Client, request, result)
             THEN /\ Goto(i, "recorded", callers[i].token, resp, "")
                  /\ LET c == RecordTokens(Client, TokensOf(result.Data.obj), now)
                     IN /\ currentTokens' = c.currentTokens
                        /\ tokenExpiresAt' = c.tokenExpiresAt
                  /\ recorded' = Append(recorded, i)
             ELSE /\ Goto(i, "done", callers[i].token, resp, "")
                  /\ UNCHANGED <<currentTokens, tokenExpiresAt, recorded>>
    /\ UNCHANGED <<accessToken, headers, oauthConfig, baseURLOk>>
    /\ RaceFrame

\* GetOAuthToken, line 71: SetAccessToken with the access token this goroutine read.
RaceSetAccessToken(i) ==
    /\ callers[i].pc = "recorded"
    /\ LET c == SetAccessToken(Client, TokensOf(callers[i].resp.data.obj).AccessToken)
       IN /\ accessToken' = c.accessToken
          /\ headers' = c.headers
    /\ Goto(i, "done", callers[i].token, callers[i].resp, "")
    /\ UNCHANGED <<oauthConfig, currentTokens, tokenExpiresAt, baseURLOk, recorded>>
    /\ RaceFrame

NextRace ==
    \/ \E i \in Callers : RaceCheck(i)
    \/ \E i \in Callers : RaceSend(i)
    \/ \E i \in Callers : RaceReceive(i)
    \/ \E i \in Callers : RaceSetAccessToken(i)

SpecRace == InitRace /\ [][NextRace]_vars

\* C24: nothing keeps two goroutines apart in EnsureValidToken: the stored tokens are
\* at every instant those of the response recorded last, whichever goroutine it was
\* answered to, and a goroutine that passed the check is never held back by the other.
C24_LastRecordedWins ==
    /\ recorded # << >>
          => currentTokens = TokensOf(callers[recorded[Len(recorded)]].resp.data.obj)
    /\ \A i \in Callers : callers[i].pc = "refresh" => ENABLED RaceSend(i)

\* Both goroutines passed the check, both sent the same refresh token, and the tokens
\* stored are those answered to the second while the first recorded other tokens.
C24_Witness ==
    /\ Len(recorded) = 2
    /\ recorded[1] # recorded[2]
    /\ callers[1].token = callers[2].token
    /\ callers[1].token # ""
    /\ callers[1].resp # callers[2].resp
    /\ currentTokens = TokensOf(callers[recorded[2]].resp.data.obj)
    /\ currentTokens # TokensOf(callers[recorded[1]].resp.data.obj)

(***************************************************************************)
(* The Watcher.  In the specifications of the Watcher the client is used   *)
(* only through Subscribe, whose outcome is an input: it stays as          *)
(* NewClient(nil) built it.                                                *)
(***************************************************************************)
ClientUnused ==
    LET c == NewClient("", [k \in {} |-> ""], NilConfig, TRUE)
    IN /\ accessToken = c.accessToken
       /\ headers = c.headers
       /\ oauthConfig = c.oauthConfig
       /\ currentTokens = c.currentTokens
       /\ tokenExpiresAt = c.tokenExpiresAt
       /\ baseURLOk = c.baseURLOk
       /\ now = 0
       /\ last = NoCall
       /\ given = Nothing
       /\ returned = Nothing
       /\ RaceAtRest

ClientStaysUnused ==
    UNCHANGED <<accessToken, headers, oauthConfig, currentTokens, tokenExpiresAt, baseURLOk, now, last,
                given, returned, raceVars>>

(***************************************************************************)
(* The polling loop and processMessage.  The body of a queue message is    *)
(* nil or a text: a text that is not JSON, the JSON null, a JSON value     *)
(* that is no object, or an object whose members "meta", "payload" and     *)
(* "version" are each absent or of some JSON type.  A payload object holds *)
(* the key "id" or not.                                                    *)
(***************************************************************************)
MaxMessages == 2

MessageBody(kind, meta, payload, hasId, version) ==
    [kind |-> kind, meta |-> meta, payload |-> payload, hasId |-> hasId, version |-> version]

NilBody == MessageBody("nil", "absent", "absent", FALSE, "absent")

ObjectBodyOf(meta, payload, hasId, version) == MessageBody("object", meta, payload, hasId, version)

MessageBodies ==
    { NilBody,
      MessageBody("text", "absent", "absent", FALSE, "absent"),
      MessageBody("null", "absent", "absent", FALSE, "absent"),
      MessageBody("array", "absent", "absent", FALSE, "absent"),
      ObjectBodyOf("object", "absent", FALSE, "string"),
      ObjectBodyOf("object", "null", FALSE, "string"),
      ObjectBodyOf("object", "object", FALSE, "string"),
      ObjectBodyOf("object", "string", FALSE, "string"),
      ObjectBodyOf("string", "object", TRUE, "string"),
      ObjectBodyOf("object", "object", TRUE, "number"),
      ObjectBodyOf("object", "object", TRUE, "string"),
      ObjectBodyOf("absent", "object", TRUE, "absent"),
      ObjectBodyOf("null", "object", TRUE, "null") }

\* json.Unmarshal into an SQSMessageBody: null leaves the zero value; a map field
\* takes an object or null, the string field a string or null.
UnmarshalMessageBody(body) ==
    IF body.kind = "null" THEN [err |-> "", payloadNil |-> TRUE, hasId |-> FALSE]
    ELSE IF body.kind # "object"
    THEN [err |-> "failed to parse message body: " \o body.kind, payloadNil |-> TRUE, hasId |-> FALSE]
    ELSE IF \/ body.meta \notin {"absent", "null", "object"}
            \/ body.payload \notin {"absent", "null", "object"}
            \/ body.version \notin {"absent", "null", "string"}
    THEN [err |-> "failed to parse message body: cannot unmarshal",
          payloadNil |-> body.payload # "object", hasId |-> body.payload = "object" /\ body.hasId]
    ELSE [err |-> "", payloadNil |-> body.payload # "object",
          hasId |-> body.payload = "object" /\ body.hasId]

Processed(err, called) == [err |-> err, called |-> called]

\* A faulty processMessage: the handler is called before the payload is looked at.
processMessageHandlerFirst(body, handler) ==
    IF body.kind = "nil" THEN Processed("message body is nil", FALSE)
    ELSE LET messageBody == UnmarshalMessageBody(body)
         IN IF messageBody.err # "" THEN Processed(messageBody.err, FALSE)
            ELSE IF messageBody.payloadNil THEN Processed("message payload is nil", handler)
            ELSE IF ~messageBody.hasId
                 THEN Processed("incorrect message format, missing payload.id", handler)
            ELSE Processed("", handler)

\* processMessage: the error returned ("" for nil) and whether the handler was called.
processMessage(body, handler) ==
    IF body.kind = "nil" THEN Processed("message body is nil", FALSE)
    ELSE LET messageBody == UnmarshalMessageBody(body)
         IN IF messageBody.err # "" THEN Processed(messageBody.err, FALSE)
            ELSE IF messageBody.payloadNil THEN Processed("message payload is nil", FALSE)
            ELSE IF ~messageBody.hasId
                 THEN Processed("incorrect message format, missing payload.id", FALSE)
            ELSE Processed("", handler)

\* The results ReceiveMessage can hand back.
Batches == UNION { [1..n -> MessageBodies] : n \in 0..MaxMessages }

\* Run has set w.running and started the loop, and waits on stopChan.
InitPoll ==
    /\ ClientUnused
    /\ running = TRUE
    /\ runs = [i \in RunCallers |-> IF i = 1 THEN [pc |-> "wait", result |-> "none"]
                                             ELSE [pc |-> "idle", result |-> "none"]]
    /\ stops = [i \in StopCallers |-> [pc |-> "idle"]]
    /\ loops = << "check" >>
    /\ subscriptions = 1
    /\ \E handler \in BOOLEAN : poll = [pc |-> "check", handler |-> handler]
    /\ batch = << >>
    /\ cursor = 0
    /\ handled = {}
    /\ deleted = {}

PollFrame ==
    /\ ClientStaysUnused
    /\ UNCHANGED <<runs, stops, loops, subscriptions>>

\* The range loop moves to the next message, or the for loop to its condition.
Advance(pc) ==
    /\ cursor' = cursor + 1
    /\ poll' = [poll EXCEPT !.pc = IF cursor + 1 > Len(batch) THEN "check" ELSE pc]

\* pollSQSMessages, line 122: for w.running.
PollCheck ==
    /\ poll.pc = "check"
    /\ poll' = [poll EXCEPT !.pc = IF running THEN "receive" ELSE "exited"]
    /\ UNCHANGED <<running, batch, cursor, handled, deleted>>
    /\ PollFrame

\* pollSQSMessages, lines 124-135: ReceiveMessage fails.
PollReceiveError ==
    /\ poll.pc = "receive"
    /\ poll' = [poll EXCEPT !.pc = "check"]
    /\ UNCHANGED <<running, batch, cursor, handled, deleted>>
    /\ PollFrame

\* pollSQSMessages, lines 124-138 and 154-157: ReceiveMessage hands back messages.
PollReceive ==
    /\ poll.pc = "receive"
    /\ \E messages \in Batches :
          /\ batch' = messages
          /\ poll' = [poll EXCEPT !.pc = IF messages = << >> THEN "check" ELSE "process"]
    /\ cursor' = 1
    /\ handled' = {}
    /\ deleted' = {}
    /\ UNCHANGED running
    /\ PollFrame

\* pollSQSMessages, lines 139-142: processMessage on the message under the cursor.
PollProcess ==
    /\ poll.pc = "process"
    /\ LET done == processMessage(batch[cursor], poll.handler)
       IN /\ handled' = IF done.called THEN handled \cup {cursor} ELSE handled
          /\ IF done.err # ""
             THEN Advance("process")
             ELSE poll' = [poll EXCEPT !.pc = "delete"] /\ UNCHANGED cursor
    /\ UNCHANGED <<running, batch, deleted>>
    /\ PollFrame

\* pollSQSMessages, lines 144-151: DeleteMessage, whose failure is only logged.
PollDelete ==
    /\ poll.pc = "delete"
    /\ \E ok \in BOOLEAN : deleted' = IF ok THEN deleted \cup {cursor} ELSE deleted
    /\ Advance("process")
    /\ UNCHANGED <<running, batch, handled>>
    /\ PollFrame

\* Run, line 107, after a Stop: w.running = false.
PollStopped ==
    /\ running
    /\ running' = FALSE
    /\ UNCHANGED <<poll, batch, cursor, handled, deleted>>
    /\ PollFrame

NextPoll ==
    \/ PollCheck
    \/ PollReceiveError
    \/ PollReceive
    \/ PollProcess
    \/ PollDelete
    \/ PollStopped

SpecPoll == InitPoll /\ [][NextPoll]_vars

\* The ways a message fails that the claim C28 names.
FailingMessage(body) ==
    \/ body.kind = "nil"
    \/ body.kind \in {"text", "array"}
    \/ body.meta = "string" \/ body.payload = "string" \/ body.version = "number"
    \/ body.kind = "null" \/ body.payload \in {"absent", "null"}
    \/ ~body.hasId

\* The messages of the batch the loop has gone past.
Past == { i \in 1..Len(batch) : i < cursor }

\* C28: a message is deleted only after processMessage returned nil for it; a
\* message that fails is neither deleted nor handed to the handler; and the loop goes
\* past a failing message to the rest of the batch: once the batch is done, every
\* message that does not fail was handed to the handler.
C28_DeleteOnlyAfterSuccess ==
    /\ \A i \in deleted : i \in 1..Len(batch) /\ i < cursor /\ processMessage(batch[i], poll.handler).err = ""
    /\ \A i \in 1..Len(batch) : FailingMessage(batch[i]) => i \notin deleted /\ i \notin handled
    /\ poll.pc = "delete" => processMessage(batch[cursor], poll.handler).err = ""
    /\ poll.pc \in {"process", "delete"} => cursor \in 1..Len(batch)
    /\ (poll.handler /\ poll.pc \in {"process", "delete", "check", "exited"})
          => \A i \in Past : ~FailingMessage(batch[i]) => i \in handled

C28_Witness ==
    /\ Len(batch) = 2
    /\ cursor = 3
    /\ FailingMessage(batch[1])
    /\ batch[1].payload = "object"
    /\ ~FailingMessage(batch[2])
    /\ handled = {2}
    /\ deleted = {2}

(***************************************************************************)
(* Run and Stop.  Two goroutines call Run and two call Stop on one         *)
(* Watcher, each once and at any moment.  The Watcher holds no lock: a     *)
(* step is one read or write of w.running, one call of Subscribe, the go   *)
(* statement, or the meeting of a send and a receive on the unbuffered     *)
(* stopChan.  A polling loop is followed through its reading of w.running  *)
(* and one turn of its body.                                               *)
(***************************************************************************)
ErrAlreadyRunning == "watcher is already running"

InitWatcher == ClientUnused /\ WatcherAtRest

WatcherFrame ==
    /\ ClientStaysUnused
    /\ UNCHANGED <<poll, batch, cursor, handled, deleted>>

RunAt(i, pc, result) == runs' = [runs EXCEPT ![i] = [pc |-> pc, result |-> result]]

\* A goroutine calls Run.
RunCall(i) ==
    /\ runs[i].pc = "idle"
    /\ RunAt(i, "check", "none")
    /\ UNCHANGED <<running, stops, loops, subscriptions>>
    /\ WatcherFrame

\* Run, lines 90-92: if w.running.
RunCheck(i) ==
    /\ runs[i].pc = "check"
    /\ IF running THEN RunAt(i, "returned", ErrAlreadyRunning) ELSE RunAt(i, "subscribe", "none")
    /\ UNCHANGED <<running, stops, loops, subscriptions>>
    /\ WatcherFrame

\* Run, lines 95-97: Subscribe, which StartWatchData lets succeed or not.
RunSubscribe(i) ==
    /\ runs[i].pc = "subscribe"
    /\ \E success \in BOOLEAN :
          IF success
          THEN RunAt(i, "set", "none") /\ subscriptions' = subscriptions + 1
          ELSE RunAt(i, "returned", "failed to start watch data") /\ UNCHANGED subscriptions
    /\ UNCHANGED <<running, stops, loops>>
    /\ WatcherFrame

\* Run, line 99: w.running = true.
RunSetRunning(i) ==
    /\ runs[i].pc = "set"
    /\ running' = TRUE
    /\ RunAt(i, "go", "none")
    /\ UNCHANGED <<stops, loops, subscriptions>>
    /\ WatcherFrame

\* Run, line 103: go w.pollSQSMessages().
RunGo(i) ==
    /\ runs[i].pc = "go"
    /\ loops' = Append(loops, "check")
    /\ RunAt(i, "wait", "none")
    /\ UNCHANGED <<running, stops, subscriptions>>
    /\ WatcherFrame

\* Run, line 106, and Stop, line 116: the receive of Run i meets the send of Stop j.
StopSignal(i, j) ==
    /\ runs[i].pc = "wait"
    /\ stops[j].pc = "send"
    /\ RunAt(i, "stopped", "none")
    /\ stops' = [stops EXCEPT ![j] = [pc |-> "done"]]
    /\ UNCHANGED <<running, loops, subscriptions>>
    /\ WatcherFrame

\* Run, lines 107-110: w.running = false, return nil.
RunClearRunning(i) ==
    /\ runs[i].pc = "stopped"
    /\ running' = FALSE
    /\ RunAt(i, "returned", "nil")
    /\ UNCHANGED <<stops, loops, subscriptions>>
    /\ WatcherFrame

\* A goroutine calls Stop.
StopCall(j) ==
    /\ stops[j].pc = "idle"
    /\ stops' = [stops EXCEPT ![j] = [pc |-> "check"]]
    /\ UNCHANGED <<running, runs, loops, subscriptions>>
    /\ WatcherFrame

\* Stop, line 115: if w.running.
StopCheck(j) ==
    /\ stops[j].pc = "check"
    /\ stops' = [stops EXCEPT ![j] = [pc |-> IF running THEN "send" ELSE "done"]]
    /\ UNCHANGED <<running, runs, loops, subscriptions>>
    /\ WatcherFrame

\* The loops a Watcher with two Run calls can start.
Loops == 1..Cardinality(RunCallers)

\* pollSQSMessages, line 122: for w.running.
LoopCheck(k) ==
    /\ k \in 1..Len(loops)
    /\ loops[k] = "check"
    /\ loops' = [loops EXCEPT ![k] = IF running THEN "poll" ELSE "exited"]
    /\ UNCHANGED <<running, runs, stops, subscriptions>>
    /\ WatcherFrame

\* pollSQSMessages, lines 123-158: one turn of the body.
LoopPoll(k) ==
    /\ k \in 1..Len(loops)
    /\ loops[k] = "poll"
    /\ loops' = [loops EXCEPT ![k] = "check"]
    /\ UNCHANGED <<running, runs, stops, subscriptions>>
    /\ WatcherFrame

\* The steps of the goroutine of Run i after its call, of Stop j, and of loop k.
RunStep(i) ==
    \/ RunCheck(i)
    \/ RunSubscribe(i)
    \/ RunSetRunning(i)
    \/ RunGo(i)
    \/ \E j \in StopCallers : StopSignal(i, j)
    \/ RunClearRunning(i)

StopStep(j) == StopCheck(j) \/ \E i \in RunCallers : StopSignal(i, j)

LoopStep(k) == LoopCheck(k) \/ LoopPoll(k)

NextWatcher ==
    \/ \E i \in RunCallers : RunCall(i)
    \/ \E i \in RunCallers : RunCheck(i)
    \/ \E i \in RunCallers : RunSubscribe(i)
    \/ \E i \in RunCallers : RunSetRunning(i)
    \/ \E i \in RunCallers : RunGo(i)
    \/ \E i \in RunCallers, j \in StopCallers : StopSignal(i, j)
    \/ \E i \in RunCallers : RunClearRunning(i)
    \/ \E j \in StopCallers : StopCall(j)
    \/ \E j \in StopCallers : StopCheck(j)
    \/ \E k \in Loops : LoopCheck(k)
    \/ \E k \in Loops : LoopPoll(k)

SpecWatcher == InitWatcher /\ [][NextWatcher]_vars

\* The Go scheduler lets every goroutine that can take a step take one; when Run
\* or Stop is called is up to the callers.
WatcherFairness ==
    /\ \A i \in RunCallers : WF_vars(RunStep(i))
    /\ \A j \in StopCallers : WF_vars(StopStep(j))
    /\ \A k \in Loops : WF_vars(LoopStep(k))

SpecWatcherLive == SpecWatcher /\ WatcherFairness

\* The polling loops that have not exited.
ActiveLoops == { k \in 1..Len(loops) : loops[k] # "exited" }

\* The Run calls that went past the check of w.running and have not returned.
RunsInProgress == { i \in RunCallers : runs[i].pc \in {"subscribe", "set", "go", "wait", "stopped"} }

C29_OneLoop == Cardinality(ActiveLoops) <= 1

C29_OneRun == Cardinality(RunsInProgress) <= 1

\* C29: in every interleaving of Run and Stop calls at most one polling loop is
\* active, and at most one Run is past its check: a Run called while another has not
\* returned fails with "watcher is already running", subscribes nothing and starts
\* no loop.
C29_AtMostOneLoop == C29_OneLoop /\ C29_OneRun

C30_StopReturns == \A j \in StopCallers : (stops[j].pc = "check") ~> (stops[j].pc = "done")

C30_RunReturns ==
    \A i \in RunCallers :
        (runs[i].pc = "wait" /\ \E j \in StopCallers : stops[j].pc = "send") ~> (runs[i].pc = "returned")

C30_LoopExits ==
    \A k \in Loops :
        (k \in ActiveLoops /\ \E j \in StopCallers : stops[j].pc = "send") ~> (k \notin ActiveLoops)

\* C30: every Stop that is called returns; once a Stop has found the Watcher running,
\* the Run that waits returns and the polling loop that is active exits.
C30_StopTerminates == C30_StopReturns /\ C30_RunReturns /\ C30_LoopExits

====
